---- MODULE Spec2Model ----
(***************************************************************************)
(* Model of the clade-based train/test split (scripts/train_test_split.py), *)
(* the per-tip trajectory extraction (scripts/trajectory.py) and the        *)
(* pairwise extraction (scripts/pairwise_trajectory.py).                    *)
(*                                                                          *)
(* Trees are ordered rooted trees whose nodes are numbered in pre-order     *)
(* (node 1 is the root, the children of a node are visited in ascending     *)
(* number), so that every ordered tree shape up to MaxNodes nodes occurs    *)
(* exactly once.  A node's name is its number, or NoName when the JSON      *)
(* node has no (or an empty) "name".  Proportions are the exact rationals   *)
(* k / PropDen.                                                             *)
(***************************************************************************)
EXTENDS Integers, Sequences, FiniteSets, TLC

\* ---------------------------------------------------------------- bounds
MaxNodes == 4          \* every tree shape up to this many nodes is an input
MaxUnnamedNodes == 3   \* ... and up to this many with one node unnamed
PropDen == 3           \* proportions and tolerance are k / PropDen
MaxBack == 2           \* largest --mutations-back
MaxMutations == 1      \* most mutations in one tree
MaxTarget == 7         \* largest target_size given to find_monophyletic_clade
MaxBranchNodes == 3    \* every tree shape up to this size is a branch table
MaxHamming == 1        \* largest hamming value of a branch table row
MaxMissing == 1        \* most nodes without a sequence in the alignment
MaxItems == 5          \* longest list given to generate_pairs
MaxLimit == 3          \* largest --train-limit / --test-limit
MaxRepeats == 1        \* most draws of an index that was drawn before
MaxSeqLen == 3         \* longest sequence given to calculate_hamming_distance
MaxWalkNodes == 4      \* every tree shape up to this size is walked
MaxWalkMutations == 3  \* most mutations in one walked tree
MaxColorings == 3      \* most colorings in the metadata of a document
MaxCalls == 3          \* most calls of add_train_test_coloring on a document
MaxTips == 6           \* most tips of a tree whose targets are computed

\* A missing or empty node name: node.get("name") is falsy.
NoName == 0

\* The hamming field "?" of a branch table row (branches.py writes it for
\* its own missing-sequence flag -1).
Unknown == -1

VARIABLES
    tree_dict,   \* the loaded tree: [parent, name, muts]
    args,        \* the parsed and validated command line of the split tool
    shuffled,    \* available_tips as left by rng.shuffle (fixed by the seed)
    runs,        \* run |-> the locals of iterative/monophyletic selection
    node_attrs,  \* node |-> node_attrs.train_test.value, "none" when unset
    pc,          \* position of main() of the split tool
    \* trajectory.py
    parent_of,      \* child |-> parent, from the branch table
    hamming_of,     \* <<parent, child>> |-> distance
    train_test_of,  \* child |-> label, for rows with a non-empty label
    sequences,      \* record id |-> sequence, from the alignment
    name_of,        \* node |-> the characters of its name in the branch table
    todo,           \* the tips the loop of main() has not reached yet
    files,          \* output path |-> the entries written to it
    processed,      \* tip |-> the path given to write_trajectory, its label
    stats,          \* tip_distances, path_depths, train_tips, test_tips
    \* pairwise_trajectory.py
    items,          \* the list of tips given to the pair generator
    pair_args,      \* limit and seed
    calls,          \* call |-> the locals of the pair generator
    \* further state of the split tool, and calls of single functions
    auspice_json,   \* the loaded document: has_meta, has_colorings, colorings
    output,         \* the documents written to --output, in order
    hamming_call,   \* the arguments and results of calculate_hamming_distance
    pairwise_run,   \* the locals of main() of pairwise_trajectory.py
    documents       \* the document before and after each call of
                    \* add_train_test_coloring

splitVars == <<tree_dict, args, shuffled, runs, node_attrs, pc>>

trajVars == <<parent_of, hamming_of, train_test_of, sequences, name_of, todo,
              files, processed, stats>>

pairVars == <<items, pair_args, calls>>

moreVars == <<auspice_json, output, hamming_call, pairwise_run, documents>>

vars == <<splitVars, trajVars, pairVars, moreVars>>

\* no document is loaded, nothing is written, no distance is asked for
MoreIdle ==
    /\ auspice_json = <<>> /\ output = <<>> /\ hamming_call = <<>>
    /\ pairwise_run = <<>> /\ documents = <<>>

\* the pairwise tool has not been started
PairsIdle == items = <<>> /\ pair_args = <<>> /\ calls = <<>>

\* the split tool has not been started
SplitIdle ==
    /\ tree_dict = <<>> /\ args = <<>> /\ shuffled = <<>> /\ runs = <<>>
    /\ node_attrs = <<>>

\* the trajectory tool has not been started
TrajIdle ==
    /\ parent_of = <<>> /\ hamming_of = <<>> /\ train_test_of = <<>>
    /\ sequences = <<>> /\ todo = {} /\ files = <<>> /\ processed = <<>>
    /\ stats = <<>> /\ name_of = <<>>

\* ------------------------------------------------------- generic helpers
Max(a, b) == IF a >= b THEN a ELSE b

Abs(a) == IF a >= 0 THEN a ELSE 0 - a

Range(s) == {s[i] : i \in DOMAIN s}

RECURSIVE Perms(_)
\* every ordering of the elements of the set S, as sequences
Perms(S) ==
    IF S = {} THEN {<<>>}
    ELSE UNION {{<<x>> \o p : p \in Perms(S \ {x})} : x \in S}

\* ------------------------------------------------------------ tree input
Nodes(t) == 1..Len(t.parent)

RECURSIVE AncSelf(_, _)
\* n and all its ancestors, read off the parent vector
AncSelf(parent, n) ==
    IF n = 0 THEN {} ELSE {n} \cup AncSelf(parent, parent[n])

RECURSIVE Shapes(_)
\* parent vectors of all ordered trees with n nodes, numbered in pre-order
Shapes(n) ==
    IF n = 1 THEN {<<0>>}
    ELSE UNION {{Append(p, a) : a \in AncSelf(p, n - 1)} : p \in Shapes(n - 1)}

\* node["children"], in order
Children(t, n) ==
    SelectSeq([i \in 1..Len(t.parent) |-> i], LAMBDA c : t.parent[c] = n)

\* "children" not in node or len(node.get("children", [])) == 0
IsTip(t, n) == Children(t, n) = <<>>

\* ------------------------------------- train_test_split.py: tree helpers
\* branch_attrs.mutations.get(gene, []) of a node
GeneMutations(t, n, gene) ==
    IF gene \in DOMAIN t.muts[n] THEN t.muts[n][gene] ELSE <<>>

\* A mutation descriptor is [ok, pos]: ok is FALSE when int(mut_str[1:-1])
\* raises, pos is the parsed position otherwise.
InWindow(m, trim_begin, trim_end) ==
    m.ok /\ trim_begin.val <= m.pos /\ m.pos <= trim_end.val

count_mutations_on_branch(t, n, gene, trim_begin, trim_end) ==
    IF trim_begin.none \/ trim_end.none
    THEN Len(GeneMutations(t, n, gene))
    ELSE Len(SelectSeq(GeneMutations(t, n, gene),
                       LAMBDA m : InWindow(m, trim_begin, trim_end)))

RECURSIVE PreOrder(_, _), PreOrderAll(_, _)
\* the nodes of the subtree of n, in the order traverse() visits them
PreOrder(t, n) == <<n>> \o PreOrderAll(t, Children(t, n))
PreOrderAll(t, cs) ==
    IF cs = <<>> THEN <<>>
    ELSE PreOrder(t, Head(cs)) \o PreOrderAll(t, Tail(cs))

\* the names of a sequence of nodes, unnamed nodes left out ("if name:")
NamesOf(t, ns) ==
    LET named == SelectSeq(ns, LAMBDA n : t.name[n] # NoName)
    IN  [i \in 1..Len(named) |-> t.name[named[i]]]

\* name -> node; a later node of the traversal overwrites an earlier one
build_node_map(t) ==
    LET order == PreOrder(t, 1)
        named == {t.name[n] : n \in Nodes(t)} \ {NoName}
        last(nm) == CHOOSE i \in 1..Len(order) :
                        /\ t.name[order[i]] = nm
                        /\ \A j \in (i + 1)..Len(order) : t.name[order[j]] # nm
    IN  [nm \in named |-> order[last(nm)]]

\* child name -> parent name, for named nodes with a named parent
build_parent_map(t) ==
    LET order == PreOrder(t, 1)
        HasEntry(n) == /\ t.name[n] # NoName
                       /\ t.parent[n] # 0
                       /\ t.name[t.parent[n]] # NoName
        keys == {t.name[n] : n \in {m \in Nodes(t) : HasEntry(m)}}
        last(nm) == CHOOSE i \in 1..Len(order) :
                        /\ HasEntry(order[i]) /\ t.name[order[i]] = nm
                        /\ \A j \in (i + 1)..Len(order) :
                              ~(HasEntry(order[j]) /\ t.name[order[j]] = nm)
    IN  [nm \in keys |-> t.name[t.parent[order[last(nm)]]]]

\* names of the named tips, in traversal order
get_all_tips(t) ==
    NamesOf(t, SelectSeq(PreOrder(t, 1), LAMBDA n : IsTip(t, n)))

\* get_all_descendants without the recursion: the node and its children
get_all_descendants_shallow(t, n) == NamesOf(t, <<n>> \o Children(t, n))

\* names of the named nodes of the subtree of n, n included
get_all_descendants(t, n) == NamesOf(t, PreOrder(t, n))

RECURSIVE get_clade_tip_count(_, _), TipCountAll(_, _)
\* number of childless nodes under n (named or not)
get_clade_tip_count(t, n) ==
    IF IsTip(t, n) THEN 1 ELSE TipCountAll(t, Children(t, n))
TipCountAll(t, cs) ==
    IF cs = <<>> THEN 0
    ELSE get_clade_tip_count(t, Head(cs)) + TipCountAll(t, Tail(cs))

RECURSIVE WalkFrom(_, _, _, _, _, _, _, _)
\* the while loop of walk_back_mutations from current_name with the
\* running total accumulated_mutations
WalkFrom(t, current_name, accumulated_mutations, parent_map, node_map, target_mutations, gene, trim) ==
    IF current_name \notin DOMAIN parent_map
    THEN current_name
    ELSE LET branch_mutations ==
                 count_mutations_on_branch(t, node_map[current_name], gene,
                                           trim[1], trim[2])
             total == accumulated_mutations + branch_mutations
         IN  IF total >= target_mutations
             THEN current_name
             ELSE WalkFrom(t, parent_map[current_name], total, parent_map,
                           node_map, target_mutations, gene, trim)

RECURSIVE WalkFromEarly(_, _, _, _, _, _, _, _)
\* the loop stopping one mutation short of the target
WalkFromEarly(t, current_name, accumulated_mutations, parent_map, node_map, target_mutations, gene, trim) ==
    IF current_name \notin DOMAIN parent_map
    THEN current_name
    ELSE LET total == accumulated_mutations
                      + count_mutations_on_branch(t, node_map[current_name],
                                                  gene, trim[1], trim[2])
         IN  IF total + 1 >= target_mutations
             THEN current_name
             ELSE WalkFromEarly(t, parent_map[current_name], total,
                                parent_map, node_map, target_mutations, gene,
                                trim)

walk_back_early(t, tip_name, parent_map, node_map, target_mutations, gene, trim) ==
    WalkFromEarly(t, tip_name, 0, parent_map, node_map, target_mutations,
                  gene, trim)

RECURSIVE WalkFromStrict(_, _, _, _, _, _, _, _)
\* the loop with > in place of >=
WalkFromStrict(t, current_name, accumulated_mutations, parent_map, node_map, target_mutations, gene, trim) ==
    IF current_name \notin DOMAIN parent_map
    THEN current_name
    ELSE LET total == accumulated_mutations
                      + count_mutations_on_branch(t, node_map[current_name],
                                                  gene, trim[1], trim[2])
         IN  IF total > target_mutations
             THEN current_name
             ELSE WalkFromStrict(t, parent_map[current_name], total,
                                 parent_map, node_map, target_mutations, gene,
                                 trim)

walk_back_strict(t, tip_name, parent_map, node_map, target_mutations, gene, trim) ==
    WalkFromStrict(t, tip_name, 0, parent_map, node_map, target_mutations,
                   gene, trim)

walk_back_mutations(t, tip_name, parent_map, node_map, target_mutations, gene, trim) ==
    WalkFrom(t, tip_name, 0, parent_map, node_map, target_mutations, gene,
             trim)

\* --------------------------- train_test_split.py: iterative_test_selection
total_tips(t) == Len(get_all_tips(t))

\* the target rounded to the nearest integer instead of cut
target_test_count_rounded(t, a) ==
    Max(1, (2 * total_tips(t) * a.test_proportion + PropDen)
               \div (2 * PropDen))

\* max(1, int(total_tips * test_proportion))
target_test_count(t, a) ==
    Max(1, (total_tips(t) * a.test_proportion) \div PropDen)

\* max_clade_tips rounded up instead of down
max_clade_tips_ceil(t, a) ==
    (total_tips(t) * a.max_clade_proportion + PropDen - 1) \div PropDen

\* int(total_tips * max_clade_proportion)
max_clade_tips(t, a) == (total_tips(t) * a.max_clade_proportion) \div PropDen

RECURSIVE PopSeedUntried(_, _, _)
\* the inner loop taking any candidate that was not tried, test or not
PopSeedUntried(available_tips, tried_seeds, test_tips) ==
    IF available_tips = <<>>
    THEN [seed_tip |-> NoName, available_tips |-> <<>>]
    ELSE LET candidate == available_tips[Len(available_tips)]
             rest == SubSeq(available_tips, 1, Len(available_tips) - 1)
         IN  IF candidate \notin tried_seeds
             THEN [seed_tip |-> candidate, available_tips |-> rest]
             ELSE PopSeedUntried(rest, tried_seeds, test_tips)

RECURSIVE PopSeed(_, _, _)
\* the inner while loop: pop from the end of available_tips until a
\* candidate is neither tried nor test; seed_tip is NoName for None
PopSeed(available_tips, tried_seeds, test_tips) ==
    IF available_tips = <<>>
    THEN [seed_tip |-> NoName, available_tips |-> <<>>]
    ELSE LET candidate == available_tips[Len(available_tips)]
             rest == SubSeq(available_tips, 1, Len(available_tips) - 1)
         IN  IF candidate \notin tried_seeds /\ candidate \notin test_tips
             THEN [seed_tip |-> candidate, available_tips |-> rest]
             ELSE PopSeed(rest, tried_seeds, test_tips)

\* A seed search that draws any eligible tip, as if the loop drew from rng.
SeedDrawsAny(available_tips, tried_seeds, test_tips) ==
    {PopSeed(available_tips, tried_seeds, test_tips)} \cup
    {[seed_tip |-> available_tips[i],
      available_tips |-> SubSeq(available_tips, 1, i - 1)
                         \o SubSeq(available_tips, i + 1, Len(available_tips))] :
       i \in {j \in 1..Len(available_tips) :
                /\ available_tips[j] \notin tried_seeds
                /\ available_tips[j] \notin test_tips}}

\* The outcomes of the seed search of one iteration.  The order of
\* available_tips was fixed by the one shuffle before the loop and the loop
\* draws nothing from rng, so there is exactly one.
SeedDraws(available_tips, tried_seeds, test_tips) ==
    {PopSeed(available_tips, tried_seeds, test_tips)}

\* Locals of a selection that has just been entered.
EnterSelection(order) ==
    [pc |-> "loop", available_tips |-> order, test_nodes |-> {},
     test_tips |-> {}, tried_seeds |-> {}, marked |-> {}]

\* the ancestor clade a seed leads to
SeedAncestor(t, a, seed_tip) ==
    walk_back_mutations(t, seed_tip, build_parent_map(t), build_node_map(t),
                        a.mutations_back, a.gene,
                        <<a.trim_begin, a.trim_end>>)

\* One pass through the loop body that adds every descendant to test_tips,
\* as if the body had no 'if desc in all_tips'.
IterationMarkingAll(t, a, st, d) ==
    IF d.seed_tip = NoName
    THEN [st EXCEPT !.pc = "returned", !.available_tips = d.available_tips]
    ELSE LET ancestor_name == SeedAncestor(t, a, d.seed_tip)
             ancestor_node == build_node_map(t)[ancestor_name]
             clade_tip_count == get_clade_tip_count(t, ancestor_node)
             descendants == get_all_descendants(t, ancestor_node)
             tried == st.tried_seeds \cup {d.seed_tip}
         IN  IF clade_tip_count > max_clade_tips(t, a)
             THEN [st EXCEPT !.available_tips = d.available_tips,
                             !.tried_seeds = tried]
             ELSE [st EXCEPT !.available_tips = d.available_tips,
                             !.tried_seeds = tried,
                             !.test_nodes = @ \cup Range(descendants),
                             !.test_tips = @ \cup Range(descendants),
                             !.marked = @ \cup {ancestor_node}]

\* One pass through the loop body that rejects a clade of max_clade_tips
\* tips too, as if the test were >= instead of >.
IterationRejectingFull(t, a, st, d) ==
    IF d.seed_tip = NoName
    THEN [st EXCEPT !.pc = "returned", !.available_tips = d.available_tips]
    ELSE LET ancestor_name == SeedAncestor(t, a, d.seed_tip)
             ancestor_node == build_node_map(t)[ancestor_name]
             clade_tip_count == get_clade_tip_count(t, ancestor_node)
             descendants == get_all_descendants(t, ancestor_node)
             tried == st.tried_seeds \cup {d.seed_tip}
         IN  IF clade_tip_count >= max_clade_tips(t, a)
             THEN [st EXCEPT !.available_tips = d.available_tips,
                             !.tried_seeds = tried]
             ELSE [st EXCEPT !.available_tips = d.available_tips,
                             !.tried_seeds = tried,
                             !.test_nodes = @ \cup Range(descendants),
                             !.test_tips = @ \cup (Range(descendants)
                                                   \cap Range(get_all_tips(t))),
                             !.marked = @ \cup {ancestor_node}]

\* One pass through the body of the outer while loop with the seed search
\* having produced d.
IterationWith(t, a, st, d) ==
    IF d.seed_tip = NoName
    THEN [st EXCEPT !.pc = "returned", !.available_tips = d.available_tips]
    ELSE LET ancestor_name == SeedAncestor(t, a, d.seed_tip)
             ancestor_node == build_node_map(t)[ancestor_name]
             clade_tip_count == get_clade_tip_count(t, ancestor_node)
             descendants == get_all_descendants(t, ancestor_node)
             tried == st.tried_seeds \cup {d.seed_tip}
         IN  IF clade_tip_count > max_clade_tips(t, a)
             THEN [st EXCEPT !.available_tips = d.available_tips,
                             !.tried_seeds = tried]
             ELSE [st EXCEPT !.available_tips = d.available_tips,
                             !.tried_seeds = tried,
                             !.test_nodes = @ \cup Range(descendants),
                             !.test_tips = @ \cup (Range(descendants)
                                             \cap Range(get_all_tips(t))),
                             !.marked = @ \cup {ancestor_node}]

\* the loop condition satisfied one test tip short of the target
LoopConditionShort(t, a, st) ==
    /\ Cardinality(st.test_tips) + 1 < target_test_count(t, a)
    /\ st.available_tips # <<>>

\* the loop condition with <= for <
LoopConditionInclusive(t, a, st) ==
    /\ Cardinality(st.test_tips) <= target_test_count(t, a)
    /\ st.available_tips # <<>>

\* while len(test_tips) < target_test_count and available_tips
LoopCondition(t, a, st) ==
    /\ Cardinality(st.test_tips) < target_test_count(t, a)
    /\ st.available_tips # <<>>

\* one iteration of the selection loop of run r
Iterate(r) ==
    /\ pc = "select"
    /\ args.strategy = "random-clades"
    /\ runs[r].pc = "loop"
    /\ LoopCondition(tree_dict, args, runs[r])
    /\ \E d \in SeedDraws(runs[r].available_tips, runs[r].tried_seeds,
                          runs[r].test_tips) :
           runs' = [runs EXCEPT ![r] = IterationWith(tree_dict, args, @, d)]
    /\ UNCHANGED <<tree_dict, args, shuffled, node_attrs, pc,
                   trajVars, pairVars, moreVars>>

\* the loop condition fails: return test_nodes, test_tips
Return(r) ==
    /\ pc = "select"
    /\ args.strategy = "random-clades"
    /\ runs[r].pc = "loop"
    /\ ~LoopCondition(tree_dict, args, runs[r])
    /\ runs' = [runs EXCEPT ![r].pc = "returned"]
    /\ UNCHANGED <<tree_dict, args, shuffled, node_attrs, pc,
                   trajVars, pairVars, moreVars>>

\* ------------------------ train_test_split.py: monophyletic_test_selection
\* min_size <= tip_count <= max_size, with min_size = target_size * (1 -
\* tolerance) and max_size = target_size * (1 + tolerance), tolerance being
\* tol / PropDen
InSizeWindow(tip_count, target_size, tol) ==
    /\ target_size * (PropDen - tol) <= tip_count * PropDen
    /\ tip_count * PropDen <= target_size * (PropDen + tol)

\* the candidates search() collects, in the order it collects them
Candidates(t, target_size, tol) ==
    SelectSeq(PreOrder(t, 1),
              LAMBDA n : InSizeWindow(get_clade_tip_count(t, n),
                                      target_size, tol))

\* the last candidate with the smallest key, where min() takes the first
MinByDistanceLast(t, candidates, target_size) ==
    LET key(n) == Abs(get_clade_tip_count(t, n) - target_size)
        best == CHOOSE i \in 1..Len(candidates) :
                    /\ \A j \in 1..Len(candidates) :
                           key(candidates[i]) <= key(candidates[j])
                    /\ \A j \in (i + 1)..Len(candidates) :
                           key(candidates[j]) > key(candidates[i])
    IN  candidates[best]

\* min(candidates, key=lambda x: abs(x[1] - target_size)): the first
\* candidate with the smallest key
MinByDistance(t, candidates, target_size) ==
    LET key(n) == Abs(get_clade_tip_count(t, n) - target_size)
        best == CHOOSE i \in 1..Len(candidates) :
                    /\ \A j \in 1..Len(candidates) :
                           key(candidates[i]) <= key(candidates[j])
                    /\ \A j \in 1..(i - 1) :
                           key(candidates[j]) > key(candidates[i])
    IN  candidates[best]

\* find_monophyletic_clade falling back on the closest clade of the tree
\* when no clade is in the window
find_closest_clade(t, target_size, tol) ==
    LET candidates == Candidates(t, target_size, tol)
        clade_node == MinByDistance(t, IF candidates = <<>>
                                       THEN PreOrder(t, 1) ELSE candidates,
                                    target_size)
    IN  [raised |-> FALSE, node |-> clade_node,
         tip_count |-> get_clade_tip_count(t, clade_node)]

find_monophyletic_clade(t, target_size, tol) ==
    LET candidates == Candidates(t, target_size, tol)
    IN  IF candidates = <<>>
        THEN [raised |-> TRUE, node |-> 0, tip_count |-> 0]
        ELSE LET clade_node == MinByDistance(t, candidates, target_size)
             IN  [raised |-> FALSE, node |-> clade_node,
                  tip_count |-> get_clade_tip_count(t, clade_node)]

monophyletic_test_selection(t, a, st) ==
    LET found == find_monophyletic_clade(t, target_test_count(t, a),
                                         a.tolerance)
        test_nodes == Range(get_all_descendants(t, found.node))
    IN  IF found.raised
        THEN [st EXCEPT !.pc = "raised"]
        ELSE [st EXCEPT !.pc = "returned",
                        !.test_nodes = test_nodes,
                        !.test_tips = {tip \in Range(get_all_tips(t)) :
                                          tip \in test_nodes},
                        !.marked = {found.node}]

\* main() with --strategy monophyletic; a ValueError ends main()
Monophyletic ==
    /\ pc = "select"
    /\ args.strategy = "monophyletic"
    /\ runs[1].pc = "loop"
    /\ runs' = [runs EXCEPT
                  ![1] = monophyletic_test_selection(tree_dict, args, @)]
    /\ pc' = IF runs'[1].pc = "raised" THEN "raised" ELSE pc
    /\ UNCHANGED <<tree_dict, args, shuffled, node_attrs,
                   trajVars, pairVars, moreVars>>

\* -------------------------- train_test_split.py: annotate_nodes_train_test
\* annotate_nodes_train_test writing the label of the test nodes only
annotate_test_only(t, attrs, test_node_names) ==
    [n \in Nodes(t) |->
        IF t.name[n] # NoName /\ t.name[n] \in test_node_names
        THEN "test" ELSE attrs[n]]

annotate_nodes_train_test(t, attrs, test_node_names) ==
    [n \in Nodes(t) |->
        IF t.name[n] # NoName
        THEN IF t.name[n] \in test_node_names THEN "test" ELSE "train"
        ELSE attrs[n]]

Annotate ==
    /\ pc = "select"
    /\ runs[1].pc = "returned"
    /\ node_attrs' = annotate_nodes_train_test(tree_dict, node_attrs,
                                               runs[1].test_nodes)
    /\ pc' = "annotated"
    /\ UNCHANGED <<tree_dict, args, shuffled, runs, trajVars, pairVars, moreVars>>

\* ------------------------------------------------- inputs of the split tool
NoTrim == [none |-> TRUE, val |-> 0]

\* a trim bound that was given
Trim(v) == [none |-> FALSE, val |-> v]

\* k mutation descriptors at positions 1..k
Descriptors(k) == [i \in 1..k |-> [ok |-> TRUE, pos |-> i]]

RECURSIVE SumTo(_, _)
\* m[2] + ... + m[n]
SumTo(m, n) == IF n < 2 THEN 0 ELSE m[n] + SumTo(m, n - 1)

\* the numbers of nuc mutations on the branches into nodes 2..n
MutationTables(n) ==
    {m \in [2..n -> 0..MaxMutations] : SumTo(m, n) <= MaxMutations}

\* the trees of shape p read from the JSON, the node unnamed (if any)
\* without a name
TreesOfShape(p, unnamedChoices) ==
    {[parent |-> p,
      name |-> [i \in 1..Len(p) |-> IF i = unnamed THEN NoName ELSE i],
      muts |-> [i \in 1..Len(p) |-> [nuc |-> IF i = 1 THEN <<>>
                                              ELSE Descriptors(m[i])]]] :
       unnamed \in unnamedChoices, m \in MutationTables(Len(p))}

\* R(P(B, C), A) and the tree R(A, P(B, C), D) of the spec's scenario
ScenarioShapes == {<<0, 1, 2, 2, 1>>, <<0, 1, 1, 3, 3, 1>>}

\* trees whose nodes all have a name
Trees ==
    UNION {TreesOfShape(p, {0}) :
             p \in ScenarioShapes \cup UNION {Shapes(n) : n \in 1..MaxNodes}}

\* trees in which one node has no name
UnnamedTrees ==
    UNION {TreesOfShape(p, 1..Len(p)) :
             p \in UNION {Shapes(n) : n \in 1..MaxUnnamedNodes}}

RandomCladesArgs ==
    [strategy : {"random-clades"}, test_proportion : 1..PropDen,
     max_clade_proportion : 1..PropDen, mutations_back : 0..MaxBack,
     tolerance : {1}, gene : {"nuc"},
     trim_begin : {NoTrim}, trim_end : {NoTrim}]

MonophyleticArgs ==
    [strategy : {"monophyletic"}, test_proportion : 1..PropDen,
     max_clade_proportion : {1}, mutations_back : {0},
     tolerance : 1..PropDen, gene : {"nuc"},
     trim_begin : {NoTrim}, trim_end : {NoTrim}]

\* main() up to the selection, both strategies; rng.shuffle leaves any
\* order of the tips
InitOver(trees) ==
    /\ tree_dict \in trees
    /\ args \in RandomCladesArgs \cup MonophyleticArgs
    /\ shuffled \in IF args.strategy = "random-clades"
                    THEN Perms(Range(get_all_tips(tree_dict)))
                    ELSE {get_all_tips(tree_dict)}
    /\ runs = [r \in {1} |-> EnterSelection(shuffled)]
    /\ node_attrs = [n \in Nodes(tree_dict) |-> "none"]
    /\ pc = "select"
    /\ TrajIdle
    /\ PairsIdle
    /\ MoreIdle

Init == InitOver(Trees \cup UnnamedTrees)

Next ==
    \/ Iterate(1)
    \/ Return(1)
    \/ Monophyletic
    \/ Annotate

Spec == Init /\ [][Next]_vars

\* ------------------------------- the RandomClades loop run to its end
\* R(P(B, C), A) without a mutation and with one on the branch into P
LoopTrees ==
    {[parent |-> <<0, 1, 2, 2, 1>>,
      name |-> [i \in 1..5 |-> i],
      muts |-> [i \in 1..5 |-> [nuc |-> IF i = 2 THEN Descriptors(k)
                                         ELSE <<>>]]] : k \in {0, 1}}

\* every test proportion, the smallest and the largest clade proportion,
\* no or one mutation back
LoopArgs ==
    {a \in RandomCladesArgs : /\ a.mutations_back <= 1
                              /\ a.max_clade_proportion \in {1, PropDen}}

\* the split tool before it has read anything
InitLoop ==
    /\ pc = "start"
    /\ SplitIdle
    /\ TrajIdle
    /\ PairsIdle
    /\ MoreIdle

\* main() reads the tree and the arguments and enters
\* iterative_test_selection, which shuffles the tips
EnterLoop ==
    /\ pc = "start"
    /\ tree_dict' \in LoopTrees
    /\ args' \in LoopArgs
    /\ shuffled' \in Perms(Range(get_all_tips(tree_dict')))
    /\ runs' = [r \in {1} |-> EnterSelection(shuffled')]
    /\ node_attrs' = [n \in Nodes(tree_dict') |-> "none"]
    /\ pc' = "select"
    /\ UNCHANGED <<trajVars, pairVars, moreVars>>

NextLoop == EnterLoop \/ Iterate(1) \/ Return(1)

\* The interpreter goes on executing the loop: an iteration that can be
\* taken is taken, and so is the return.
SpecLoop == InitLoop /\ [][NextLoop]_vars /\ WF_vars(NextLoop)

\* ------------------- the targets of the two selections (lines 158-161, 258)
\* max_clade_tips of a selection that does not compute it
NotComputed == -1

\* the first statements of iterative_test_selection and of
\* monophyletic_test_selection
ComputeTargets ==
    /\ pc = "targets"
    /\ runs' = [r \in {1} |->
                  [target_test_count |-> target_test_count(tree_dict, args),
                   max_clade_tips |->
                       IF args.strategy = "random-clades"
                       THEN max_clade_tips(tree_dict, args)
                       ELSE NotComputed]]
    /\ pc' = "computed"
    /\ UNCHANGED <<tree_dict, args, shuffled, node_attrs,
                   trajVars, pairVars, moreVars>>

\* a single node without a name (no tip at all) and the roots with 1 to
\* MaxTips tips as children (one node: the root is the tip)
TargetTrees ==
    {[parent |-> <<0>>, name |-> <<NoName>>, muts |-> <<[nuc |-> <<>>]>>]}
    \cup {[parent |-> [i \in 1..n |-> IF i = 1 THEN 0 ELSE 1],
           name |-> [i \in 1..n |-> i],
           muts |-> [i \in 1..n |-> [nuc |-> <<>>]]] : n \in 1..(MaxTips + 1)}

InitTargets ==
    /\ tree_dict \in TargetTrees
    /\ args \in RandomCladesArgs \cup MonophyleticArgs
    /\ shuffled = <<>>
    /\ runs = <<>>
    /\ node_attrs = <<>>
    /\ pc = "targets"
    /\ TrajIdle
    /\ PairsIdle
    /\ MoreIdle

SpecTargets == InitTargets /\ [][ComputeTargets]_vars

\* ------------------------------------ train_test_split.py: walk_back_mutations
\* walk_back_mutations(tip, ...) as iterative_test_selection calls it
WalkedBack(tip) ==
    walk_back_mutations(tree_dict, tip, build_parent_map(tree_dict),
                        build_node_map(tree_dict), args.mutations_back,
                        args.gene, <<args.trim_begin, args.trim_end>>)

\* one call of walk_back_mutations, for a tip not walked from yet
WalkBack ==
    /\ pc = "walk"
    /\ \E tip \in Range(get_all_tips(tree_dict)) \ DOMAIN runs :
          runs' = [x \in DOMAIN runs \cup {tip} |->
                      IF x = tip THEN WalkedBack(tip) ELSE runs[x]]
    /\ UNCHANGED <<tree_dict, args, shuffled, node_attrs, pc,
                   trajVars, pairVars, moreVars>>

RECURSIVE SumSeqTo(_, _)
\* m[2] + ... + m[n]
SumSeqTo(m, n) == IF n < 2 THEN 0 ELSE m[n] + SumSeqTo(m, n - 1)

\* named trees with up to MaxWalkMutations nuc mutations, at positions
\* 1..k on a branch with k of them
WalkTrees ==
    UNION {{[parent |-> p,
             name |-> [i \in 1..Len(p) |-> i],
             muts |-> [i \in 1..Len(p) |->
                          [nuc |-> IF i = 1 THEN <<>> ELSE Descriptors(m[i])]]] :
              m \in {mm \in [2..Len(p) -> 0..MaxWalkMutations] :
                       SumSeqTo(mm, Len(p)) <= MaxWalkMutations}} :
           p \in UNION {Shapes(n) : n \in 1..MaxWalkNodes}}

\* target counts, a gene with and one without mutations in the tree, no
\* window, two windows, and a window with one bound only
WalkArgs ==
    [mutations_back : 0..(MaxWalkMutations + 1), gene : {"nuc", "HA1"},
     trim_begin : {NoTrim, Trim(1), Trim(2)}, trim_end : {NoTrim, Trim(2)}]

InitWalk ==
    /\ tree_dict \in WalkTrees
    /\ args \in WalkArgs
    /\ shuffled = <<>>
    /\ runs = <<>>
    /\ node_attrs = <<>>
    /\ pc = "walk"
    /\ TrajIdle
    /\ PairsIdle
    /\ MoreIdle

SpecWalk == InitWalk /\ [][WalkBack]_vars

\* ----------------------------- train_test_split.py: add_train_test_coloring
\* [["train", "#4C78A8"], ["test", "#E45756"]]
TrainTestScale == <<(<<"train", "#4C78A8">>), (<<"test", "#E45756">>)>>

\* the coloring appended when none has the key
train_test_coloring ==
    [key |-> "train_test", title |-> "Train/Test Split",
     type |-> "categorical", scale |-> TrainTestScale]

\* the colorings list the loop runs over: [] when "meta" or "colorings" is
\* not in the document
ColoringsOf(doc) ==
    IF doc.has_meta /\ doc.has_colorings THEN doc.colorings ELSE <<>>

\* add_train_test_coloring that appends without looking for the key
add_train_test_coloring_append(doc) ==
    [has_meta |-> TRUE, has_colorings |-> TRUE,
     colorings |-> Append(ColoringsOf(doc), train_test_coloring)]

\* the document after add_train_test_coloring: the first coloring with key
\* train_test gets the title, type and scale, or a new one is appended
add_train_test_coloring(doc) ==
    LET colorings == ColoringsOf(doc)
        hits == {i \in 1..Len(colorings) : colorings[i].key = "train_test"}
        first == CHOOSE i \in hits : \A j \in hits : i <= j
    IN  [has_meta |-> TRUE, has_colorings |-> TRUE,
         colorings |->
             IF hits # {}
             THEN [colorings EXCEPT ![first] =
                      [@ EXCEPT !.title = "Train/Test Split",
                                !.type = "categorical",
                                !.scale = TrainTestScale]]
             ELSE Append(colorings, train_test_coloring)]

\* colorings a document may hold: another key, a stale train_test record,
\* a record without a key (coloring.get("key") is None)
OtherColorings ==
    {[key |-> "clade", title |-> "Clade", type |-> "categorical",
      scale |-> <<>>],
     [key |-> "none", title |-> "", type |-> "continuous", scale |-> <<>>]}

StaleColoring ==
    [key |-> "train_test", title |-> "Split", type |-> "ordinal",
     scale |-> <<(<<"train", "#000000">>)>>]

\* add_train_test_coloring(auspice_json) called once more on the document
\* the earlier calls left
CallAddColoring ==
    /\ pc = "coloring"
    /\ Len(documents) <= MaxCalls
    /\ auspice_json' = add_train_test_coloring(auspice_json)
    /\ documents' = Append(documents, auspice_json')
    /\ UNCHANGED <<splitVars, trajVars, pairVars, output, hamming_call,
                   pairwise_run>>

\* the lists of at most n colorings
ColoringLists(n) ==
    UNION {[1..k -> OtherColorings \cup {StaleColoring}] : k \in 0..n}

\* documents without "meta", with "meta" but no "colorings", and with a
\* list of colorings
ColoringDocuments ==
    {[has_meta |-> FALSE, has_colorings |-> FALSE, colorings |-> <<>>],
     [has_meta |-> TRUE, has_colorings |-> FALSE, colorings |-> <<>>]}
    \cup {[has_meta |-> TRUE, has_colorings |-> TRUE, colorings |-> c] :
            c \in ColoringLists(MaxColorings)}

InitColoring ==
    /\ auspice_json \in ColoringDocuments
    /\ documents = <<auspice_json>>
    /\ output = <<>> /\ hamming_call = <<>> /\ pairwise_run = <<>>
    /\ pc = "coloring"
    /\ SplitIdle
    /\ TrajIdle
    /\ PairsIdle

SpecColoring == InitColoring /\ [][CallAddColoring]_vars

\* ------------------------------------------- train_test_split.py: main()
\* auspice_data.get("tree") is None or an empty dict
NoTree == [parent |-> <<>>, name |-> <<>>, muts |-> <<>>]

\* the locals of a selection that was not entered
NotEntered ==
    [pc |-> "idle", available_tips |-> <<>>, test_nodes |-> {},
     test_tips |-> {}, tried_seeds |-> {}, marked |-> {}]

\* the four checks after parse_args; a proportion is k / PropDen
ArgumentsValid(a) ==
    /\ 0 < a.test_proportion /\ a.test_proportion <= PropDen
    /\ 0 < a.max_clade_proportion /\ a.max_clade_proportion <= PropDen
    /\ ~(a.mutations_back < 0)
    /\ 0 < a.tolerance /\ a.tolerance <= PropDen

\* lines 366-374 of main(): a failed check raises ValueError
ValidateArgs ==
    /\ pc = "validate"
    /\ pc' = IF ArgumentsValid(args) THEN "load" ELSE "error"
    /\ UNCHANGED <<tree_dict, args, shuffled, runs, node_attrs,
                   trajVars, pairVars, moreVars>>

\* lines 376-413 of main(): the document is loaded, "if not tree_dict"
\* raises ValueError, otherwise the selection is entered
LoadTree ==
    /\ pc = "load"
    /\ IF tree_dict = NoTree
       THEN pc' = "error" /\ UNCHANGED runs
       ELSE pc' = "select" /\ runs' = [r \in {1} |-> EnterSelection(shuffled)]
    /\ UNCHANGED <<tree_dict, args, shuffled, node_attrs,
                   trajVars, pairVars, moreVars>>

\* line 419 of main()
AddColoring ==
    /\ pc = "annotated"
    /\ auspice_json' = add_train_test_coloring(auspice_json)
    /\ pc' = "colored"
    /\ UNCHANGED <<tree_dict, args, shuffled, runs, node_attrs,
                   trajVars, pairVars, output, hamming_call, pairwise_run,
                   documents>>

\* lines 421-423 of main(): the annotated document goes to --output
WriteOutput ==
    /\ pc = "colored"
    /\ output' = Append(output, [node_attrs |-> node_attrs,
                                 meta |-> auspice_json])
    /\ pc' = "written"
    /\ UNCHANGED <<tree_dict, args, shuffled, runs, node_attrs,
                   trajVars, pairVars, auspice_json, hamming_call,
                   pairwise_run, documents>>

\* command lines, valid or not: proportions from 0 to above 1, a negative
\* --mutations-back, each trim bound given or not
MainArgs ==
    [strategy : {"random-clades", "monophyletic"},
     test_proportion : {0, 1, PropDen, PropDen + 1},
     max_clade_proportion : {0, PropDen, PropDen + 1},
     mutations_back : {0 - 1, 0, 1},
     tolerance : {0, PropDen, PropDen + 1}, gene : {"nuc"},
     trim_begin : {NoTrim, Trim(2)}, trim_end : {NoTrim, Trim(2)}]

\* the input documents: no tree, or a named tree
MainTrees ==
    {NoTree} \cup
    UNION {TreesOfShape(p, {0}) :
             p \in UNION {Shapes(n) : n \in 1..MaxUnnamedNodes}}

\* the meta of the input documents
MainDocuments ==
    {[has_meta |-> FALSE, has_colorings |-> FALSE, colorings |-> <<>>],
     [has_meta |-> TRUE, has_colorings |-> TRUE,
      colorings |-> <<StaleColoring>>]}

\* main() after parse_args
InitMain ==
    /\ tree_dict \in MainTrees
    /\ args \in MainArgs
    /\ shuffled \in IF tree_dict = NoTree THEN {<<>>}
                    ELSE IF args.strategy = "random-clades"
                    THEN Perms(Range(get_all_tips(tree_dict)))
                    ELSE {get_all_tips(tree_dict)}
    /\ runs = [r \in {1} |-> NotEntered]
    /\ node_attrs = [n \in Nodes(tree_dict) |-> "none"]
    /\ pc = "validate"
    /\ auspice_json \in MainDocuments
    /\ output = <<>> /\ hamming_call = <<>> /\ pairwise_run = <<>>
    /\ documents = <<>>
    /\ TrajIdle
    /\ PairsIdle

NextMain ==
    \/ ValidateArgs
    \/ LoadTree
    \/ Iterate(1)
    \/ Return(1)
    \/ Monophyletic
    \/ Annotate
    \/ AddColoring
    \/ WriteOutput

SpecMain == InitMain /\ [][NextMain]_vars

\* ------------------------------------ two runs of iterative_test_selection
\* the same tree, arguments and seed (so the same shuffled order) twice
InitTwoRuns ==
    /\ tree_dict \in Trees
    /\ args \in RandomCladesArgs
    /\ shuffled \in Perms(Range(get_all_tips(tree_dict)))
    /\ runs = [r \in {1, 2} |-> EnterSelection(shuffled)]
    /\ node_attrs = [n \in Nodes(tree_dict) |-> "none"]
    /\ pc = "select"
    /\ TrajIdle
    /\ PairsIdle
    /\ MoreIdle

\* the second run starts when the first has returned
IterateAgain == runs[1].pc = "returned" /\ Iterate(2)

ReturnAgain == runs[1].pc = "returned" /\ Return(2)

NextTwoRuns ==
    \/ Iterate(1)
    \/ Return(1)
    \/ IterateAgain
    \/ ReturnAgain

SpecTwoRuns == InitTwoRuns /\ [][NextTwoRuns]_vars

\* ------------------------------- find_monophyletic_clade called on its own
\* any tree, any target_size (monophyletic_train_test_split.py passes
\* int(total_tips * test_fraction), which may be 0) and any tolerance
InitFind ==
    /\ tree_dict \in Trees
    /\ args \in [target_size : 0..MaxTarget, tolerance : 1..PropDen]
    /\ shuffled = <<>>
    /\ runs = [r \in {1} |-> [pc |-> "call", found |-> <<>>]]
    /\ node_attrs = [n \in Nodes(tree_dict) |-> "none"]
    /\ pc = "find"
    /\ TrajIdle
    /\ PairsIdle
    /\ MoreIdle

FindClade ==
    /\ pc = "find"
    /\ runs[1].pc = "call"
    /\ LET found == find_monophyletic_clade(tree_dict, args.target_size,
                                            args.tolerance)
       IN  runs' = [runs EXCEPT
                      ![1] = [pc |-> IF found.raised THEN "raised"
                                     ELSE "returned",
                              found |-> found]]
    /\ UNCHANGED <<tree_dict, args, shuffled, node_attrs, pc,
                   trajVars, pairVars, moreVars>>

SpecFind == InitFind /\ [][FindClade]_vars

\* ============================================================ trajectory.py
\* A row of branches.tsv is [parent, child, hamming, train_test]; hamming is
\* a number or Unknown, train_test is "", "train" or "test".

\* parse_branches: a later row of a child overwrites an earlier one
LastRow(rows, child) ==
    rows[CHOOSE i \in 1..Len(rows) :
            /\ rows[i].child = child
            /\ \A j \in (i + 1)..Len(rows) : rows[j].child # child]

parse_parent_of(rows) ==
    [c \in {rows[i].child : i \in 1..Len(rows)} |-> LastRow(rows, c).parent]

\* parse_hamming_of keeping the missing-sequence flag of branches.py for an
\* Unknown row
parse_hamming_of_flag(rows) ==
    [e \in {<<rows[i].parent, rows[i].child>> : i \in 1..Len(rows)} |->
        LET row == rows[CHOOSE i \in 1..Len(rows) :
                           /\ <<rows[i].parent, rows[i].child>> = e
                           /\ \A j \in (i + 1)..Len(rows) :
                                 <<rows[j].parent, rows[j].child>> # e]
        IN  IF row.hamming # Unknown THEN row.hamming ELSE 0 - 1]

parse_hamming_of(rows) ==
    [e \in {<<rows[i].parent, rows[i].child>> : i \in 1..Len(rows)} |->
        LET row == rows[CHOOSE i \in 1..Len(rows) :
                           /\ <<rows[i].parent, rows[i].child>> = e
                           /\ \A j \in (i + 1)..Len(rows) :
                                 <<rows[j].parent, rows[j].child>> # e]
        IN  IF row.hamming # Unknown THEN row.hamming ELSE 0]

parse_train_test_of(rows) ==
    LET labelled == {i \in 1..Len(rows) : rows[i].train_test # ""}
        last(c) == CHOOSE i \in labelled :
                       /\ rows[i].child = c
                       /\ \A j \in labelled : j > i => rows[j].child # c
    IN  [c \in {rows[i].child : i \in labelled} |-> rows[last(c)].train_test]

\* children that are never parents
find_tips(parents) == DOMAIN parents \ Range(parents)

RECURSIVE get_path_to_root(_, _)
\* the path from the tip back to the root, tip first
get_path_to_root(tip, parents) ==
    IF tip \in DOMAIN parents
    THEN <<tip>> \o get_path_to_root(parents[tip], parents)
    ELSE <<tip>>

Reverse(s) == [i \in 1..Len(s) |-> s[Len(s) + 1 - i]]

\* train_test_of.get(node), "" for None
LabelOf(labels, node) == IF node \in DOMAIN labels THEN labels[node] ELSE ""

\* find_test_boundary with != 'train' in place of == 'test'
find_not_train_boundary(path, labels) ==
    LET hits == {i \in 1..Len(path) : LabelOf(labels, path[i]) # "train"}
    IN  IF hits = {} THEN 0
        ELSE CHOOSE i \in hits : \A j \in hits : i <= j

\* the position in path of its first node labelled test, 0 for None
\* (positions are counted from 1)
find_test_boundary(path, labels) ==
    LET hits == {i \in 1..Len(path) : LabelOf(labels, path[i]) = "test"}
    IN  IF hits = {} THEN 0
        ELSE CHOOSE i \in hits : \A j \in hits : i <= j

\* hamming_of.get((parent, node), 0)
BranchDist(hamming, parent, node) ==
    IF <<parent, node>> \in DOMAIN hamming THEN hamming[<<parent, node>>]
    ELSE 0

\* sequences.get(node, '')
SequenceOf(seqs, node) == IF node \in DOMAIN seqs THEN seqs[node] ELSE <<>>

RECURSIVE WriteFromEveryZero(_, _, _, _, _, _)
\* the loop skipping every node with branch distance 0, the tip included
WriteFromEveryZero(path, seqs, hamming, i, cumulative_distance, lines) ==
    IF i > Len(path)
    THEN [entries |-> lines, cumulative_distance |-> cumulative_distance,
          frames_written |-> Len(lines)]
    ELSE LET node == path[i]
             branch_dist == IF i > 1 THEN BranchDist(hamming, path[i - 1], node)
                            ELSE 0
             cumulative == cumulative_distance + branch_dist
             skipped == \/ i > 1 /\ branch_dist = 0
                        \/ SequenceOf(seqs, node) = <<>>
         IN  WriteFromEveryZero(path, seqs, hamming, i + 1, cumulative,
                                IF skipped THEN lines
                                ELSE Append(lines,
                                            [node |-> node,
                                             distance |-> cumulative,
                                             seq |-> SequenceOf(seqs, node)]))

RECURSIVE WriteFromCountingEmitted(_, _, _, _, _, _)
\* the loop adding a branch distance only when the node is emitted
WriteFromCountingEmitted(path, seqs, hamming, i, cumulative_distance, lines) ==
    IF i > Len(path)
    THEN [entries |-> lines, cumulative_distance |-> cumulative_distance,
          frames_written |-> Len(lines)]
    ELSE LET node == path[i]
             branch_dist == IF i > 1 THEN BranchDist(hamming, path[i - 1], node)
                            ELSE 0
             skipped == \/ i > 1 /\ branch_dist = 0 /\ i # Len(path)
                        \/ SequenceOf(seqs, node) = <<>>
             cumulative == IF skipped THEN cumulative_distance
                           ELSE cumulative_distance + branch_dist
         IN  WriteFromCountingEmitted(path, seqs, hamming, i + 1, cumulative,
                                      IF skipped THEN lines
                                      ELSE Append(lines,
                                                  [node |-> node,
                                                   distance |-> cumulative,
                                                   seq |-> SequenceOf(seqs, node)]))

RECURSIVE WriteFrom(_, _, _, _, _, _)
\* the for loop of write_trajectory from position i on, with the running
\* cumulative_distance and the entries appended so far
WriteFrom(path, seqs, hamming, i, cumulative_distance, lines) ==
    IF i > Len(path)
    THEN [entries |-> lines, cumulative_distance |-> cumulative_distance,
          frames_written |-> Len(lines)]
    ELSE LET node == path[i]
             branch_dist == IF i > 1 THEN BranchDist(hamming, path[i - 1], node)
                            ELSE 0
             cumulative == cumulative_distance + branch_dist
             skipped == \/ i > 1 /\ branch_dist = 0 /\ node # path[Len(path)]
                        \/ SequenceOf(seqs, node) = <<>>
         IN  WriteFrom(path, seqs, hamming, i + 1, cumulative,
                       IF skipped THEN lines
                       ELSE Append(lines, [node |-> node,
                                           distance |-> cumulative,
                                           seq |-> SequenceOf(seqs, node)]))

\* the entries of the file and the returned (tip_distance, path_depth)
write_trajectory(path, seqs, hamming) ==
    WriteFrom(path, seqs, hamming, 1, 0, <<>>)

\* has_train_test = bool(train_test_of)
has_train_test == DOMAIN train_test_of # {}

\* main() without the truncation at the boundary
TrajectoryPathFull(tip) == Reverse(get_path_to_root(tip, parent_of))

\* the path main() hands to write_trajectory for a tip
TrajectoryPath(tip) ==
    LET path == Reverse(get_path_to_root(tip, parent_of))
        boundary_idx == find_test_boundary(path, train_test_of)
    IN  IF /\ has_train_test
           /\ LabelOf(train_test_of, tip) = "test"
           /\ boundary_idx # 0
        THEN SubSeq(path, boundary_idx, Len(path))
        ELSE path

\* ------------------------------------------- trajectory.py: sanitize_filename
\* "hCoV-19", character by character
Prefix == <<"h", "C", "o", "V", "-", "1", "9">>

\* / \ : * ? " < > | and space
UnsafeChars == {"/", "\\", ":", "*", "?", "\"", "<", ">", "|", " "}

\* name.startswith(prefix)
startswith(name, prefix) ==
    Len(name) >= Len(prefix) /\ SubSeq(name, 1, Len(prefix)) = prefix

\* the prefix cut off, then every unsafe character removed
sanitize_filename(name) ==
    LET stripped == IF startswith(name, Prefix)
                    THEN SubSeq(name, 8, Len(name)) ELSE name
    IN  SelectSeq(stripped, LAMBDA c : c \notin UnsafeChars)

\* ext of main(), one piece
Ext == <<".fasta">>

\* the directory of the output file of a tip
OutputDir(tip) ==
    IF ~has_train_test THEN "output_dir"
    ELSE IF LabelOf(train_test_of, tip) = "test" THEN "forwards-test"
         ELSE "forwards-train"

\* os.path.join(directory, f"{safe_name}{ext}")
OutputPath(tip) == <<OutputDir(tip), sanitize_filename(name_of[tip]) \o Ext>>

\* f writing value at key (a dict assignment, a file written anew)
Put(f, key, value) ==
    [k \in DOMAIN f \cup {key} |-> IF k = key THEN value ELSE f[k]]

\* the body of the loop of main() for one tip; the loop runs over a set, in
\* whatever order the set yields
ProcessTip ==
    /\ pc = "trajectory"
    /\ \E tip \in todo :
        LET path == TrajectoryPath(tip)
            out == write_trajectory(path, sequences, hamming_of)
            is_test == has_train_test /\ LabelOf(train_test_of, tip) = "test"
        IN  /\ todo' = todo \ {tip}
            /\ files' = Put(files, OutputPath(tip), out.entries)
            /\ processed' = Put(processed, tip,
                                [path |-> path, dir |-> OutputDir(tip),
                                 output_path |-> OutputPath(tip)])
            /\ stats' = [tip_distances |-> Append(stats.tip_distances,
                                                  out.cumulative_distance),
                         path_depths |-> Append(stats.path_depths,
                                                out.frames_written),
                         train_tips |-> stats.train_tips
                             + (IF has_train_test /\ ~is_test THEN 1 ELSE 0),
                         test_tips |-> stats.test_tips
                             + (IF is_test THEN 1 ELSE 0)]
    /\ UNCHANGED <<splitVars, parent_of, hamming_of, train_test_of, sequences,
                   name_of, pairVars, moreVars>>

\* ------------------------------------------- inputs of the trajectory tool
\* a chain of four nodes and R(P(B, C), A)
BranchScenarioShapes == {<<0, 1, 2, 3>>, <<0, 1, 2, 2, 1>>}

BranchShapes ==
    BranchScenarioShapes \cup UNION {Shapes(n) : n \in 2..MaxBranchNodes}

\* the labellings of the children 2..n: none labelled (a tree that was
\* never split) or each train or test
Labellings(n) == {[c \in 2..n |-> ""]} \cup [2..n -> {"train", "test"}]

\* the branch tables of the trees of shape p, one row per child
BranchTables(p) ==
    {[i \in 1..(Len(p) - 1) |->
         [parent |-> p[i + 1], child |-> i + 1, hamming |-> h[i + 1],
          train_test |-> l[i + 1]]] :
       h \in [2..Len(p) -> {Unknown} \cup 0..MaxHamming],
       l \in Labellings(Len(p))}

\* the alignments: a sequence for every node but at most MaxMissing
Alignments(n) ==
    {[i \in present |-> <<"A">>] :
       present \in {S \in SUBSET (1..n) : Cardinality(S) >= n - MaxMissing}}

\* the names of the nodes of the generated tables: one digit each
Digits == <<"1", "2", "3", "4", "5", "6", "7", "8", "9">>

PlainNames(nodes) == [n \in nodes |-> <<Digits[n]>>]

\* main() of trajectory.py after parse_branches, load_sequences, find_tips
InitTrajectory ==
    /\ \E p \in BranchShapes :
          /\ \E rows \in BranchTables(p) :
                /\ parent_of = parse_parent_of(rows)
                /\ hamming_of = parse_hamming_of(rows)
                /\ train_test_of = parse_train_test_of(rows)
          /\ sequences \in Alignments(Len(p))
    /\ name_of = PlainNames(DOMAIN parent_of \cup Range(parent_of))
    /\ todo = find_tips(parent_of)
    /\ files = <<>>
    /\ processed = <<>>
    /\ stats = [tip_distances |-> <<>>, path_depths |-> <<>>,
                train_tips |-> 0, test_tips |-> 0]
    /\ tree_dict = <<>> /\ args = <<>> /\ shuffled = <<>> /\ runs = <<>>
    /\ node_attrs = <<>>
    /\ pc = "trajectory"
    /\ PairsIdle
    /\ MoreIdle

SpecTrajectory == InitTrajectory /\ [][ProcessTip]_vars

\* ============================================ pairwise_trajectory.py
\* items[k] of Python for a list held as a sequence: k counts from 0, a
\* negative k counts from the end, IndexError outside
IndexError == -1

PyIndex(s, k) ==
    IF k >= 0 /\ k < Len(s) THEN s[k + 1]
    ELSE IF k < 0 /\ k >= 0 - Len(s) THEN s[Len(s) + k + 1]
    ELSE IndexError

\* n * (n - 1) // 2
PairCount(n) == (n * (n - 1)) \div 2

RECURSIVE CombinationsFrom(_, _, _)
\* the pairs (items[a], items[b]), a < b, from (a, b) on in the order of
\* itertools.combinations (positions counted from 1)
CombinationsFrom(s, a, b) ==
    IF a >= Len(s) THEN <<>>
    ELSE IF b > Len(s) THEN CombinationsFrom(s, a + 1, a + 2)
    ELSE <<(<<s[a], s[b]>>)>> \o CombinationsFrom(s, a, b + 1)

\* list(itertools.combinations(items, 2))
combinations(s) == CombinationsFrom(s, 1, 2)

\* the integer part of the square root
IntSqrt(x) == CHOOSE r \in 0..x : r * r <= x /\ x < (r + 1) * (r + 1)

\* how far the rounding of the float square root may put the estimate of
\* the row from its exact value
FloatErrors == {0 - 1, 0, 1}

\* int((1 + (1 + 8 * idx) ** 0.5) / 2), never below 1
RowEstimate(idx, err) == Max(1, ((1 + IntSqrt(1 + 8 * idx)) \div 2) + err)

RECURSIVE RowDown(_, _)
\* while i * (i - 1) // 2 > idx: i -= 1
RowDown(i, idx) == IF PairCount(i) > idx THEN RowDown(i - 1, idx) ELSE i

RECURSIVE RowUpStrict(_, _)
\* the second loop with < for <=
RowUpStrict(i, idx) ==
    IF PairCount(i + 1) < idx THEN RowUpStrict(i + 1, idx) ELSE i

RECURSIVE RowUp(_, _)
\* while (i + 1) * i // 2 <= idx: i += 1
RowUp(i, idx) == IF PairCount(i + 1) <= idx THEN RowUp(i + 1, idx) ELSE i

\* the row without the two adjustment loops
index_to_row_uncorrected(idx, estimate) == estimate

\* the row i of the triangular enumeration that holds idx
index_to_row(idx, estimate) == RowUp(RowDown(estimate, idx), idx)

\* the pair appended for idx
pair_of_index(s, idx, estimate) ==
    LET i == index_to_row(idx, estimate)
        j == idx - PairCount(i)
    IN  <<PyIndex(s, j), PyIndex(s, i)>>

RECURSIVE Ascending(_)
\* the members of a set of integers, smallest first
Ascending(S) ==
    IF S = {} THEN <<>>
    ELSE LET m == CHOOSE x \in S : \A y \in S : x <= y
         IN  <<m>> \o Ascending(S \ {m})

RECURSIVE Product(_)
\* the lists that take their k-th member from the k-th set: what the
\* conversion loop can build when every round has its own rounding error
Product(sets) ==
    IF sets = <<>> THEN {<<>>}
    ELSE {<<x>> \o rest : x \in Head(sets), rest \in Product(Tail(sets))}

NoLimit == [none |-> TRUE, val |-> 0]

\* limit is None or limit >= total_pairs
ReturnsAllPairs(limit, total_pairs) == limit.none \/ limit.val >= total_pairs

\* the value the second call draws at the position of the stream where the
\* first call drew idx: both calls start the stream with random.seed(seed)
SeededDraws(idx, total_pairs) == {idx}

\* the locals of a call on entry
EnterCall == [pc |-> "running", selected_indices |-> {}, draws |-> 0,
              pairs |-> <<>>]

\* the loop condition with <= for <
InSamplingLoopInclusive(c, total_pairs) ==
    /\ calls[c].pc = "running"
    /\ ~ReturnsAllPairs(pair_args.limit, total_pairs)
    /\ Cardinality(calls[c].selected_indices) <= pair_args.limit.val

\* the call is in the sampling loop and its condition holds
InSamplingLoop(c, total_pairs) ==
    /\ calls[c].pc = "running"
    /\ ~ReturnsAllPairs(pair_args.limit, total_pairs)
    /\ Cardinality(calls[c].selected_indices) < pair_args.limit.val

\* the call has left the sampling loop
SamplingDone(c, total_pairs) ==
    /\ calls[c].pc = "running"
    /\ ~ReturnsAllPairs(pair_args.limit, total_pairs)
    /\ Cardinality(calls[c].selected_indices) >= pair_args.limit.val

\* idx = random.randint(0, total_pairs - 1); selected_indices.add(idx)
AddIndex(call, idx) ==
    [call EXCEPT !.selected_indices = @ \cup {idx}, !.draws = @ + 1]

\* an index drawn before is drawn again at most MaxRepeats times
MayDraw(call, idx) ==
    idx \in call.selected_indices
        => call.draws - Cardinality(call.selected_indices) < MaxRepeats

\* one iteration of the sampling loop in every call that is in it; the calls
\* read the same stream position by position
SampleStep(total_pairs) ==
    /\ \E c \in DOMAIN calls : InSamplingLoop(c, total_pairs)
    /\ \E idx \in 0..(total_pairs - 1) :
       \E again \in SeededDraws(idx, total_pairs) :
          LET drawn == [c \in DOMAIN calls |-> IF c = 1 THEN idx ELSE again]
          IN  /\ \A c \in DOMAIN calls :
                    InSamplingLoop(c, total_pairs)
                        => MayDraw(calls[c], drawn[c])
              /\ calls' = [c \in DOMAIN calls |->
                              IF InSamplingLoop(c, total_pairs)
                              THEN AddIndex(calls[c], drawn[c])
                              ELSE calls[c]]
    /\ UNCHANGED <<items, pair_args, splitVars, trajVars, moreVars>>

\* ------------------------------------------------------- generate_pairs
\* lines 87-92 of generate_pairs
Sample ==
    /\ pc = "generate_pairs"
    /\ SampleStep(PairCount(Len(items)))

\* lines 103-113 of generate_pairs; the pairs are listed by ascending index
\* (the order in which Python walks the set is not modelled)
ConvertIndices(c) ==
    /\ pc = "generate_pairs"
    /\ SamplingDone(c, PairCount(Len(items)))
    /\ LET order == Ascending(calls[c].selected_indices)
           appended == [k \in 1..Len(order) |->
                           {pair_of_index(items, order[k],
                                          RowEstimate(order[k], err)) :
                              err \in FloatErrors}]
       IN  \E pairs \in Product(appended) :
              calls' = [calls EXCEPT ![c].pc = "returned", ![c].pairs = pairs]
    /\ UNCHANGED <<items, pair_args, splitVars, trajVars, moreVars>>

\* lines 83-84 of generate_pairs
ReturnAll(c) ==
    /\ pc = "generate_pairs"
    /\ calls[c].pc = "running"
    /\ ReturnsAllPairs(pair_args.limit, PairCount(Len(items)))
    /\ calls' = [calls EXCEPT ![c].pc = "returned",
                              ![c].pairs = combinations(items)]
    /\ UNCHANGED <<items, pair_args, splitVars, trajVars, moreVars>>

\* the lists of n distinct tips, in ascending and in descending order
ItemLists ==
    UNION {{[k \in 1..n |-> k], [k \in 1..n |-> n + 1 - k]} :
             n \in 0..MaxItems}

\* --train-limit / --test-limit: absent, or any int
Limits == {NoLimit} \cup {[none |-> FALSE, val |-> v] : v \in (0 - 1)..MaxLimit}

\* --seed
Seeds == {42}

\* two calls generate_pairs(items, limit, seed) with the same arguments
InitGeneratePairs ==
    /\ items \in ItemLists
    /\ pair_args \in [limit : Limits, seed : Seeds]
    /\ calls = [c \in {1, 2} |-> EnterCall]
    /\ pc = "generate_pairs"
    /\ SplitIdle
    /\ MoreIdle
    /\ TrajIdle

NextGeneratePairs ==
    \/ Sample
    \/ ConvertIndices(1)
    \/ ConvertIndices(2)
    \/ ReturnAll(1)
    \/ ReturnAll(2)

SpecGeneratePairs == InitGeneratePairs /\ [][NextGeneratePairs]_vars

\* ------------------------------------------------------ index inversion
\* the largest value taken for the estimate int((1 + (1 + 8 * idx) ** 0.5) / 2)
MaxEstimate == 7

\* the lists the inversion is applied to
InvertedLists == {[k \in 1..n |-> k] : n \in 2..MaxItems}

\* the conversions of indices started on one list of items, none done yet
InitInvert ==
    /\ items \in InvertedLists
    /\ pair_args = <<>>
    /\ calls = <<>>
    /\ pc = "convert"
    /\ SplitIdle
    /\ MoreIdle
    /\ TrajIdle

\* one pass of 'for idx in selected_indices': the estimate (at least 1, as
\* idx >= 0), the two loops, j, and the pair
InvertIndex ==
    /\ pc = "convert"
    /\ Len(calls) < 2
    /\ \E idx \in 0..(PairCount(Len(items)) - 1), estimate \in 1..MaxEstimate :
          calls' = Append(calls,
                          [idx |-> idx, estimate |-> estimate,
                           i |-> index_to_row(idx, estimate),
                           pair |-> pair_of_index(items, idx, estimate)])
    /\ UNCHANGED <<items, pair_args, pc, splitVars, trajVars, moreVars>>

NextInvert == InvertIndex

SpecInvert == InitInvert /\ [][NextInvert]_vars

\* ----------------------------------------- generate_test_pairs_by_clade
\* train_test_of.get(node, default)
LabelOr(labels, node, default) ==
    IF node \in DOMAIN labels THEN labels[node] ELSE default

\* the test nodes whose parent is train
find_test_clade_roots(parents, labels) ==
    {child \in DOMAIN parents :
        /\ LabelOr(labels, child, "train") = "test"
        /\ LabelOr(labels, parents[child], "train") = "train"}

RECURSIVE WalkAboveTip(_, _, _)
\* the walk looking for a clade root among the proper ancestors only
WalkAboveTip(current, parents, clade_roots) ==
    IF current \notin DOMAIN parents THEN NoName
    ELSE IF parents[current] \in clade_roots THEN parents[current]
    ELSE WalkAboveTip(parents[current], parents, clade_roots)

RECURSIVE WalkToCladeRoot(_, _, _)
\* the walk up from a tip: the first clade root met, NoName when the walk
\* leaves parent_of without meeting one
WalkToCladeRoot(current, parents, clade_roots) ==
    IF current \notin DOMAIN parents THEN NoName
    ELSE IF current \in clade_roots THEN current
    ELSE WalkToCladeRoot(parents[current], parents, clade_roots)

RECURSIVE MembershipFrom(_, _, _, _)
\* the entries of membership for tips[k..], in the order they are inserted
MembershipFrom(tips, k, parents, labels) ==
    IF k > Len(tips) THEN <<>>
    ELSE LET root == WalkToCladeRoot(tips[k], parents,
                                     find_test_clade_roots(parents, labels))
         IN  (IF LabelOf(labels, tips[k]) = "test" /\ root # NoName
              THEN <<[tip |-> tips[k], clade_root |-> root]>>
              ELSE <<>>) \o MembershipFrom(tips, k + 1, parents, labels)

\* the dict tip -> clade root as the list of its entries
get_clade_membership(tips, parents, labels) ==
    MembershipFrom(tips, 1, parents, labels)

RECURSIVE CladeRootsUpTo(_, _)
\* the keys of clades after the first k entries, in insertion order
CladeRootsUpTo(membership, k) ==
    IF k = 0 THEN <<>>
    ELSE LET before == CladeRootsUpTo(membership, k - 1)
         IN  IF membership[k].clade_root \in Range(before) THEN before
             ELSE Append(before, membership[k].clade_root)

\* clades[clade_root]
TipsOfClade(membership, root) ==
    LET entries == SelectSeq(membership, LAMBDA e : e.clade_root = root)
    IN  [k \in 1..Len(entries) |-> entries[k].tip]

\* [tips for tips in clades.values() if len(tips) >= 2]
clade_list_of(membership) ==
    LET roots == CladeRootsUpTo(membership, Len(membership))
        values == [k \in 1..Len(roots) |-> TipsOfClade(membership, roots[k])]
    IN  SelectSeq(values, LAMBDA tips : Len(tips) >= 2)

clade_pair_counts_of(clade_list) ==
    [k \in 1..Len(clade_list) |-> PairCount(Len(clade_list[k]))]

RECURSIVE SumSeq(_)
SumSeq(s) == IF s = <<>> THEN 0 ELSE Head(s) + SumSeq(Tail(s))

RECURSIVE LocateIndex(_, _, _, _)
\* the loop over clade_pair_counts: the clade that holds idx and the index
\* within it; clade_idx 0 when the loop ends without a break
LocateIndex(counts, idx, clade_idx, cumsum) ==
    IF clade_idx > Len(counts) THEN [clade_idx |-> 0, local_idx |-> 0]
    ELSE IF cumsum + counts[clade_idx] > idx
         THEN [clade_idx |-> clade_idx, local_idx |-> idx - cumsum]
         ELSE LocateIndex(counts, idx, clade_idx + 1,
                          cumsum + counts[clade_idx])

RECURSIVE Flatten(_)
Flatten(lists) ==
    IF lists = <<>> THEN <<>> ELSE Head(lists) \o Flatten(Tail(lists))

\* the pair of idx taken from the tips of all clades as one list
flat_pairs_of_index(clade_list, idx, estimate) ==
    <<pair_of_index(Flatten(clade_list), idx, estimate)>>

\* what one round of the conversion loop appends to pairs
clade_pairs_of_index(clade_list, idx, estimate) ==
    LET at == LocateIndex(clade_pair_counts_of(clade_list), idx, 1, 0)
    IN  IF at.clade_idx = 0 THEN <<>>
        ELSE <<pair_of_index(clade_list[at.clade_idx], at.local_idx,
                             estimate)>>

\* clade_membership of main()
clade_membership == get_clade_membership(items, parent_of, train_test_of)

\* total_pairs of generate_test_pairs_by_clade
clade_total_pairs ==
    SumSeq(clade_pair_counts_of(clade_list_of(clade_membership)))

\* lines 143-147 of generate_test_pairs_by_clade
SampleClades ==
    /\ pc = "generate_test_pairs_by_clade"
    /\ SampleStep(clade_total_pairs)

\* lines 150-171 of generate_test_pairs_by_clade; the pairs are listed by
\* ascending index
ConvertCladeIndices(c) ==
    /\ pc = "generate_test_pairs_by_clade"
    /\ SamplingDone(c, clade_total_pairs)
    /\ LET clade_list == clade_list_of(clade_membership)
           counts == clade_pair_counts_of(clade_list)
           local(idx) == LocateIndex(counts, idx, 1, 0).local_idx
           order == Ascending(calls[c].selected_indices)
           appended == [k \in 1..Len(order) |->
                           {clade_pairs_of_index(clade_list, order[k],
                                RowEstimate(local(order[k]), err)) :
                              err \in FloatErrors}]
       IN  \E rounds \in Product(appended) :
              calls' = [calls EXCEPT ![c].pc = "returned",
                                     ![c].pairs = Flatten(rounds)]
    /\ UNCHANGED <<items, pair_args, splitVars, trajVars, moreVars>>

\* lines 135-140 of generate_test_pairs_by_clade
ReturnAllClades(c) ==
    /\ pc = "generate_test_pairs_by_clade"
    /\ calls[c].pc = "running"
    /\ ReturnsAllPairs(pair_args.limit, clade_total_pairs)
    /\ LET clade_list == clade_list_of(clade_membership)
       IN  calls' = [calls EXCEPT ![c].pc = "returned",
                        ![c].pairs =
                            Flatten([k \in 1..Len(clade_list) |->
                                        combinations(clade_list[k])])]
    /\ UNCHANGED <<items, pair_args, splitVars, trajVars, moreVars>>

\* two clades of two tips; a clade of three tips beside one of two
CladeScenarioShapes == {<<0, 1, 2, 2, 1, 5, 5>>, <<0, 1, 2, 2, 2, 1, 6, 6>>}

\* the branch tables of the trees of shape p, the hamming column left 0
LabelledTables(p) ==
    {[i \in 1..(Len(p) - 1) |->
         [parent |-> p[i + 1], child |-> i + 1, hamming |-> 0,
          train_test |-> l[i + 1]]] : l \in Labellings(Len(p))}

\* main() of pairwise_trajectory.py at the call of
\* generate_test_pairs_by_clade; test_tips is in the order in which Python
\* walks the set of tips
InitCladePairs ==
    /\ \E p \in BranchShapes \cup CladeScenarioShapes :
       \E rows \in LabelledTables(p) :
          /\ parent_of = parse_parent_of(rows)
          /\ hamming_of = parse_hamming_of(rows)
          /\ train_test_of = parse_train_test_of(rows)
    /\ items \in Perms({t \in find_tips(parent_of) :
                            LabelOf(train_test_of, t) = "test"})
    /\ pair_args \in [limit : Limits, seed : Seeds]
    /\ calls = [c \in {1} |-> EnterCall]
    /\ sequences = <<>> /\ todo = {} /\ files = <<>> /\ processed = <<>>
    /\ stats = <<>> /\ name_of = <<>>
    /\ pc = "generate_test_pairs_by_clade"
    /\ SplitIdle
    /\ MoreIdle

NextCladePairs ==
    \/ SampleClades
    \/ ConvertCladeIndices(1)
    \/ ReturnAllClades(1)

SpecCladePairs == InitCladePairs /\ [][NextCladePairs]_vars

\* ------------------------------------- the sampling loops, draw by draw
\* draws are counted modulo DrawsModulus here, so that a loop may draw
\* indices it already holds for ever
DrawsModulus == 2

\* total_pairs of the function that is running
total_pairs ==
    IF pc = "generate_pairs" THEN PairCount(Len(items)) ELSE clade_total_pairs

\* the tables of the second clade scenario in which every tip is test
AllTipsTest(p) ==
    {rows \in LabelledTables(p) :
        \A i \in 1..Len(rows) :
            rows[i].child \notin {rows[j].parent : j \in 1..Len(rows)}
                => rows[i].train_test = "test"}

\* a call of generate_pairs on 2..4 items or of generate_test_pairs_by_clade
\* on the test tips of a table, with 0 <= limit < total_pairs
InitSampling ==
    /\ \/ /\ pc = "generate_pairs"
          /\ items \in {[k \in 1..n |-> k] : n \in 2..4}
          /\ parent_of = <<>> /\ hamming_of = <<>> /\ train_test_of = <<>>
       \/ /\ pc = "generate_test_pairs_by_clade"
          /\ \E rows \in AllTipsTest(<<0, 1, 2, 2, 2, 1, 6, 6>>) :
                /\ parent_of = parse_parent_of(rows)
                /\ hamming_of = parse_hamming_of(rows)
                /\ train_test_of = parse_train_test_of(rows)
          /\ items = Ascending({t \in find_tips(parent_of) :
                                   LabelOf(train_test_of, t) = "test"})
    /\ pair_args \in [limit : {l \in Limits : ~l.none /\ l.val >= 0},
                      seed : Seeds]
    /\ pair_args.limit.val < total_pairs
    /\ calls = [c \in {1} |->
                   [pc |-> "running", selected_indices |-> {}, draws |-> 0,
                    pairs |-> <<>>, total_pairs |-> total_pairs]]
    /\ sequences = <<>> /\ todo = {} /\ files = <<>> /\ processed = <<>>
    /\ stats = <<>> /\ name_of = <<>>
    /\ SplitIdle
    /\ MoreIdle

\* one pass of the loop whose draw is idx
Draw(c, idx) ==
    /\ InSamplingLoop(c, calls[c].total_pairs)
    /\ calls' = [calls EXCEPT ![c].selected_indices = @ \cup {idx},
                              ![c].draws = (@ + 1) % DrawsModulus]
    /\ UNCHANGED <<items, pair_args, splitVars, trajVars, moreVars>>

\* random.randint returns an index the set does not hold
DrawNew(c) ==
    \E idx \in 0..(calls[c].total_pairs - 1) :
        idx \notin calls[c].selected_indices /\ Draw(c, idx)

\* random.randint returns an index the set holds already
DrawAgain(c) ==
    \E idx \in 0..(calls[c].total_pairs - 1) :
        idx \in calls[c].selected_indices /\ Draw(c, idx)

NextSampling ==
    \/ DrawNew(1)
    \/ DrawAgain(1)

\* random.randint gives every index a chance at every draw, so an index the
\* set does not hold is drawn in the end
SpecSampling ==
    /\ InitSampling
    /\ [][NextSampling]_vars
    /\ WF_vars(DrawNew(1))

\* ---------------------------------------------- calculate_hamming_distance
Min(a, b) == IF a <= b THEN a ELSE b

\* the characters of a sequence: two bases, the gap and the ambiguous base
Alphabet == {"A", "C", "-", "N"}

RECURSIVE HammingFromGapsOnly(_, _, _)
\* the loop with c in '-' in place of c in '-N'
HammingFromGapsOnly(seq1, seq2, k) ==
    IF k > Len(seq1) \/ k > Len(seq2) THEN 0
    ELSE (IF seq1[k] = "-" \/ seq2[k] = "-" THEN 0
          ELSE IF seq1[k] # seq2[k] THEN 1 ELSE 0)
         + HammingFromGapsOnly(seq1, seq2, k + 1)

calculate_hamming_distance_gaps_only(seq1, seq2) ==
    HammingFromGapsOnly(seq1, seq2, 1)

RECURSIVE HammingFrom(_, _, _)
\* the rounds k, k+1, ... of the loop over zip(seq1, seq2): zip stops at
\* the end of the shorter sequence
HammingFrom(seq1, seq2, k) ==
    IF k > Len(seq1) \/ k > Len(seq2) THEN 0
    ELSE (IF seq1[k] \in {"-", "N"} \/ seq2[k] \in {"-", "N"} THEN 0
          ELSE IF seq1[k] # seq2[k] THEN 1 ELSE 0)
         + HammingFrom(seq1, seq2, k + 1)

\* calculate_hamming_distance of pairwise_trajectory.py
calculate_hamming_distance(seq1, seq2) == HammingFrom(seq1, seq2, 1)

\* calculate_hamming_distance of branches.py: sequences of different
\* lengths are cut to the shorter length first
branches_calculate_hamming_distance(seq1, seq2) ==
    LET min_len == Min(Len(seq1), Len(seq2))
        cut1 == IF Len(seq1) # Len(seq2) THEN SubSeq(seq1, 1, min_len)
                ELSE seq1
        cut2 == IF Len(seq1) # Len(seq2) THEN SubSeq(seq2, 1, min_len)
                ELSE seq2
    IN  HammingFrom(cut1, cut2, 1)

\* the calls (seq1, seq2), (seq2, seq1) and (seq1, seq1) of the function of
\* pairwise_trajectory.py
CallPairwiseHamming ==
    /\ pc = "hamming"
    /\ "pairwise" \notin DOMAIN hamming_call
    /\ LET seq1 == hamming_call.seq1
           seq2 == hamming_call.seq2
       IN  hamming_call' =
               [x \in DOMAIN hamming_call \cup {"pairwise"} |->
                   IF x = "pairwise"
                   THEN [forward |-> calculate_hamming_distance(seq1, seq2),
                         backward |-> calculate_hamming_distance(seq2, seq1),
                         same |-> calculate_hamming_distance(seq1, seq1)]
                   ELSE hamming_call[x]]
    /\ UNCHANGED <<splitVars, trajVars, pairVars, auspice_json, output,
                   pairwise_run, documents>>

\* the same calls of the function of branches.py
CallBranchesHamming ==
    /\ pc = "hamming"
    /\ "branches" \notin DOMAIN hamming_call
    /\ LET seq1 == hamming_call.seq1
           seq2 == hamming_call.seq2
       IN  hamming_call' =
               [x \in DOMAIN hamming_call \cup {"branches"} |->
                   IF x = "branches"
                   THEN [forward |->
                             branches_calculate_hamming_distance(seq1, seq2),
                         backward |->
                             branches_calculate_hamming_distance(seq2, seq1),
                         same |->
                             branches_calculate_hamming_distance(seq1, seq1)]
                   ELSE hamming_call[x]]
    /\ UNCHANGED <<splitVars, trajVars, pairVars, auspice_json, output,
                   pairwise_run, documents>>

\* the sequences of up to n characters
SequencesUpTo(n) == UNION {[1..k -> Alphabet] : k \in 0..n}

InitHamming ==
    /\ \E seq1, seq2 \in SequencesUpTo(MaxSeqLen) :
          hamming_call = [seq1 |-> seq1, seq2 |-> seq2]
    /\ auspice_json = <<>> /\ output = <<>> /\ pairwise_run = <<>>
    /\ documents = <<>>
    /\ pc = "hamming"
    /\ tree_dict = <<>> /\ args = <<>> /\ shuffled = <<>> /\ runs = <<>>
    /\ node_attrs = <<>>
    /\ TrajIdle
    /\ items = <<>> /\ pair_args = <<>> /\ calls = <<>>

NextHamming == CallPairwiseHamming \/ CallBranchesHamming

SpecHamming == InitHamming /\ [][NextHamming]_vars

\* ------------------------------------- pairwise_trajectory.py: main()
\* write_pairwise_fasta: None when a sequence is missing or empty, else the
\* two entries of the file and the distance returned
write_pairwise_fasta(tip1, tip2, seqs) ==
    LET seq1 == SequenceOf(seqs, tip1)
        seq2 == SequenceOf(seqs, tip2)
        hamming == calculate_hamming_distance(seq1, seq2)
    IN  IF seq1 = <<>> \/ seq2 = <<>>
        THEN [none |-> TRUE, val |-> 0, entries |-> <<>>]
        ELSE [none |-> FALSE, val |-> hamming,
              entries |-> <<[node |-> tip1, distance |-> 0, seq |-> seq1],
                            [node |-> tip2, distance |-> hamming,
                             seq |-> seq2]>>]

\* os.path.join(directory, f"{safe1}__{safe2}.fasta")
PairPath(dir, tip1, tip2) ==
    <<dir, sanitize_filename(name_of[tip1]) \o <<"_", "_">>
             \o sanitize_filename(name_of[tip2]) \o Ext>>

\* train_tips and test_tips of main(), in the order of tips
train_tips_of(tips) ==
    SelectSeq(tips, LAMBDA t : LabelOr(train_test_of, t, "train") = "train")

test_tips_of(tips) ==
    SelectSeq(tips, LAMBDA t : LabelOf(train_test_of, t) = "test")

\* pairs as the jobs of one of the two write loops
JobsIn(dir, pairs) ==
    [k \in 1..Len(pairs) |->
        [dir |-> dir, tip1 |-> pairs[k][1], tip2 |-> pairs[k][2]]]

\* train_pairs then test_pairs of main() without --train-limit and
\* --test-limit, in the order the two loops reach them
PairJobs(tips) ==
    LET clade_list == clade_list_of(get_clade_membership(test_tips_of(tips),
                                        parent_of, train_test_of))
    IN  JobsIn("pairwise-train", combinations(train_tips_of(tips)))
        \o JobsIn("pairwise-test",
                  Flatten([k \in 1..Len(clade_list) |->
                              combinations(clade_list[k])]))

\* one round of the train loop or, after it, of the test loop
WritePair ==
    /\ pc = "pairwise"
    /\ pairwise_run.pairs # <<>>
    /\ LET job == Head(pairwise_run.pairs)
           output_path == PairPath(job.dir, job.tip1, job.tip2)
           dist == write_pairwise_fasta(job.tip1, job.tip2, sequences)
           written == ~dist.none
           is_train == job.dir = "pairwise-train"
       IN  pairwise_run' =
               [pairs |-> Tail(pairwise_run.pairs),
                done |-> Append(pairwise_run.done, job),
                files |-> IF written
                          THEN Put(pairwise_run.files, output_path,
                                   dist.entries)
                          ELSE pairwise_run.files,
                wrote |-> IF written
                          THEN Append(pairwise_run.wrote,
                                      [job |-> job,
                                       output_path |-> output_path])
                          ELSE pairwise_run.wrote,
                train_distances |->
                    IF written /\ is_train
                    THEN Append(pairwise_run.train_distances, dist.val)
                    ELSE pairwise_run.train_distances,
                test_distances |->
                    IF written /\ ~is_train
                    THEN Append(pairwise_run.test_distances, dist.val)
                    ELSE pairwise_run.test_distances]
    /\ UNCHANGED <<splitVars, trajVars, pairVars, auspice_json, output,
                   hamming_call, documents>>

\* ----------------------------- both tools on tables with spelled-out names
\* R(A, B, C) and R(P(B, C), A)
NamedShapes == {<<0, 1, 1, 1>>, <<0, 1, 2, 2, 1>>}

\* no labels; every child train; node 2 and the nodes under it test
NamedLabellings(p) ==
    {[c \in 2..Len(p) |-> ""], [c \in 2..Len(p) |-> "train"],
     [c \in 2..Len(p) |-> IF c = 2 \/ p[c] = 2 THEN "test" ELSE "train"]}

NamedTables(p) ==
    {[i \in 1..(Len(p) - 1) |->
         [parent |-> p[i + 1], child |-> i + 1, hamming |-> 0,
          train_test |-> l[i + 1]]] : l \in NamedLabellings(p)}

\* the names a tip may have: a, b, a/, a_, _a and hCoV-19/a
TipSpellings ==
    {<<"a">>, <<"b">>, <<"a", "/">>, <<"a", "_">>, <<"_", "a">>,
     Prefix \o <<"/", "a">>}

\* every node has its own name: the tips any different spellings, the other
\* nodes i1, i2, ...
Namings(parents) ==
    LET tips == find_tips(parents)
        nodes == DOMAIN parents \cup Range(parents)
    IN  {[n \in nodes |-> IF n \in tips THEN f[n] ELSE <<"i", Digits[n]>>] :
           f \in {g \in [tips -> TipSpellings] :
                     \A t1, t2 \in tips : t1 # t2 => g[t1] # g[t2]}}

\* main() of trajectory.py or of pairwise_trajectory.py before its loops;
\* tips is walked in whatever order the set yields
InitNamed ==
    /\ \E p \in NamedShapes :
          /\ \E rows \in NamedTables(p) :
                /\ parent_of = parse_parent_of(rows)
                /\ hamming_of = parse_hamming_of(rows)
                /\ train_test_of = parse_train_test_of(rows)
          /\ sequences \in Alignments(Len(p))
    /\ name_of \in Namings(parent_of)
    /\ pc \in {"trajectory", "pairwise"}
    /\ todo = IF pc = "trajectory" THEN find_tips(parent_of) ELSE {}
    /\ files = <<>>
    /\ processed = <<>>
    /\ stats = [tip_distances |-> <<>>, path_depths |-> <<>>,
                train_tips |-> 0, test_tips |-> 0]
    /\ pairwise_run \in
          IF pc = "pairwise"
          THEN {[pairs |-> PairJobs(tips), done |-> <<>>, files |-> <<>>,
                 wrote |-> <<>>, train_distances |-> <<>>,
                 test_distances |-> <<>>] :
                  tips \in Perms(find_tips(parent_of))}
          ELSE {<<>>}
    /\ auspice_json = <<>> /\ output = <<>> /\ hamming_call = <<>>
    /\ documents = <<>>
    /\ SplitIdle
    /\ PairsIdle

NextNamed == ProcessTip \/ WritePair

SpecNamed == InitNamed /\ [][NextNamed]_vars

\* ===================================================== claims: split tool
\* every node has a name and no two nodes share one
UniqueNames(t) ==
    \A n \in Nodes(t) :
        /\ t.name[n] # NoName
        /\ \A m \in Nodes(t) : m # n => t.name[m] # t.name[n]

\* the nodes strictly below n, read off the parent vector
ProperDescendants(t, n) ==
    {d \in Nodes(t) \ {n} : n \in AncSelf(t.parent, d)}

\* the number of childless nodes at or below n, read off the parent vector
TipsUnder(t, n) ==
    Cardinality({d \in Nodes(t) :
                    /\ n \in AncSelf(t.parent, d)
                    /\ \A c \in Nodes(t) : t.parent[c] # d})

DownwardClosed(t, names) ==
    \A n \in Nodes(t) :
        t.name[n] \in names =>
            \A d \in ProperDescendants(t, n) : t.name[d] \in names

\* C1: on a tree whose nodes all have unique non-empty names, test_nodes is
\* downward-closed after every iteration of the RandomClades loop and on
\* return from Monophyletic, and after annotation no node is train while one
\* of its ancestors is test.
C1_DownwardClosed ==
    UniqueNames(tree_dict) =>
        /\ \A r \in DOMAIN runs : DownwardClosed(tree_dict, runs[r].test_nodes)
        /\ pc = "annotated" =>
              \A n \in Nodes(tree_dict) :
                  node_attrs[n] = "test" =>
                      \A d \in ProperDescendants(tree_dict, n) :
                          node_attrs[d] # "train"

\* two clades were marked by the loop, one of them with a node two levels
\* below its root, and the labels were written
C1_Witness ==
    /\ UniqueNames(tree_dict)
    /\ args.strategy = "random-clades"
    /\ pc = "annotated"
    /\ Cardinality(runs[1].marked) >= 2
    /\ \E n \in runs[1].marked : \E d \in ProperDescendants(tree_dict, n) :
           tree_dict.parent[d] # n /\ node_attrs[d] = "test"

\* C3: every clade the RandomClades loop marks, and so every test node whose
\* parent is train in the labelled tree, has at most max_clade_proportion *
\* total_tips tips.
C3_CladeSizeCap ==
    args.strategy = "random-clades" =>
        /\ \A r \in DOMAIN runs : \A n \in runs[r].marked :
               TipsUnder(tree_dict, n) * PropDen
                   <= args.max_clade_proportion * total_tips(tree_dict)
        /\ pc = "annotated" =>
              \A n \in Nodes(tree_dict) \ {1} :
                  (/\ node_attrs[n] = "test"
                   /\ node_attrs[tree_dict.parent[n]] = "train") =>
                      TipsUnder(tree_dict, n) * PropDen
                          <= args.max_clade_proportion * total_tips(tree_dict)

\* a clade of two or more tips was marked after another seed had been
\* discarded for leading to an oversized clade
C3_Witness ==
    /\ args.strategy = "random-clades"
    /\ pc = "annotated"
    /\ \E n \in runs[1].marked : TipsUnder(tree_dict, n) >= 2
    /\ runs[1].tried_seeds \ runs[1].test_tips # {}
    /\ args.max_clade_proportion < PropDen

\* C5: after annotate_nodes_train_test every named node carries one label,
\* test if its name is in test_nodes and train otherwise.
C5_LabelsPartition ==
    pc = "annotated" =>
        \A n \in Nodes(tree_dict) :
            tree_dict.name[n] # NoName =>
                /\ node_attrs[n] \in {"train", "test"}
                /\ node_attrs[n] = "test"
                       <=> tree_dict.name[n] \in runs[1].test_nodes

\* labels were written on a tree with test and train nodes, internal ones
\* among both
C5_Witness ==
    /\ pc = "annotated"
    /\ \E n \in Nodes(tree_dict) :
           ~IsTip(tree_dict, n) /\ node_attrs[n] = "test"
    /\ \E n \in Nodes(tree_dict) :
           ~IsTip(tree_dict, n) /\ node_attrs[n] = "train"
    /\ \E n \in Nodes(tree_dict) : IsTip(tree_dict, n) /\ node_attrs[n] = "train"

WithinTolerance(tip_count, target_size, tol) ==
    /\ target_size * PropDen - target_size * tol <= tip_count * PropDen
    /\ tip_count * PropDen <= target_size * PropDen + target_size * tol

\* C6: find_monophyletic_clade raises exactly when no node of the tree has a
\* tip count in the tolerance window, and otherwise returns a clade whose
\* tip count is in the window.
C6_RaiseOrInWindow ==
    (pc = "find" /\ runs[1].pc # "call") =>
        /\ runs[1].pc = "raised" <=>
               ~\E n \in Nodes(tree_dict) :
                    WithinTolerance(TipsUnder(tree_dict, n), args.target_size,
                                    args.tolerance)
        /\ runs[1].pc = "returned" =>
               /\ runs[1].found.node \in Nodes(tree_dict)
               /\ runs[1].found.tip_count
                      = TipsUnder(tree_dict, runs[1].found.node)
               /\ WithinTolerance(runs[1].found.tip_count, args.target_size,
                                  args.tolerance)

\* a 3-tip tree and a target so large that no clade is in the window: raised
C6_Witness ==
    /\ pc = "find"
    /\ runs[1].pc = "raised"
    /\ TipsUnder(tree_dict, 1) = 3
    /\ args.target_size = MaxTarget

\* ================================================ claims: trajectory tool
RECURSIVE Up(_)
\* node and its ancestors in the branch table
Up(node) ==
    IF node \in DOMAIN parent_of THEN {node} \cup Up(parent_of[node])
    ELSE {node}

\* every node below a node labelled test is labelled test
LabelsDownwardClosed ==
    \A c \in DOMAIN parent_of : \A a \in Up(c) :
        LabelOf(train_test_of, a) = "test"
            => LabelOf(train_test_of, c) = "test"

\* the nodes of the entries of a file
EntryNodes(f) == {files[f][i].node : i \in 1..Len(files[f])}

\* C2: with downward-closed labels every entry of a test tip's trajectory is
\* a test node, every entry of a train tip's trajectory is a train or
\* unlabelled node, and no node is in both a train and a test trajectory.
C2_NoLeakage ==
    (pc = "trajectory" /\ LabelsDownwardClosed) =>
        /\ \A f \in DOMAIN files :
              IF f[1] = "forwards-test"
              THEN \A n \in EntryNodes(f) : LabelOf(train_test_of, n) = "test"
              ELSE \A n \in EntryNodes(f) :
                       LabelOf(train_test_of, n) \in {"train", ""}
        /\ \A f, g \in DOMAIN files :
              (f[1] = "forwards-test" /\ g[1] # "forwards-test")
                  => EntryNodes(f) \cap EntryNodes(g) = {}

\* a train and a test trajectory were written, the test one with two
\* entries, and an ancestor of the test tip is an entry of the train one
C2_Witness ==
    /\ pc = "trajectory" /\ LabelsDownwardClosed
    /\ \E f, g \in DOMAIN files :
          /\ f[1] = "forwards-test" /\ g[1] = "forwards-train"
          /\ Len(files[f]) >= 2
          /\ \E tip \in DOMAIN processed :
                /\ processed[tip].output_path = f
                /\ EntryNodes(g) \cap Up(tip) # {}

\* C7: the path of a tip that is not test starts at the root and is the
\* whole root-to-tip path; the path of a test tip starts at the first node of
\* the root-to-tip path labelled test and holds exactly the nodes from
\* there down to the tip.
C7_PathStart ==
    pc = "trajectory" =>
        \A tip \in DOMAIN processed :
            LET path == processed[tip].path
                first == path[1]
            IN  /\ path[Len(path)] = tip
                /\ \A i \in 2..Len(path) : parent_of[path[i]] = path[i - 1]
                /\ IF LabelOf(train_test_of, tip) = "test"
                   THEN /\ LabelOf(train_test_of, first) = "test"
                        /\ \A a \in Up(first) \ {first} :
                               LabelOf(train_test_of, a) # "test"
                   ELSE first \notin DOMAIN parent_of

\* a test tip whose path starts strictly between the root and the tip, and
\* a tip that is not test, have been processed
C7_Witness ==
    /\ pc = "trajectory"
    /\ \E tip \in DOMAIN processed :
          /\ LabelOf(train_test_of, tip) = "test"
          /\ Len(processed[tip].path) >= 2
          /\ processed[tip].path[1] \in DOMAIN parent_of
    /\ \E tip \in DOMAIN processed : LabelOf(train_test_of, tip) # "test"

\* C8: the distances in the entries of a written trajectory never decrease
\* from one entry to the next.
C8_DistanceMonotone ==
    pc = "trajectory" =>
        \A f \in DOMAIN files :
            \A i, j \in 1..Len(files[f]) :
                i <= j => files[f][i].distance <= files[f][j].distance

\* a trajectory of three entries whose distance grows, over a path with a
\* branch of distance 0
C8_Witness ==
    /\ pc = "trajectory"
    /\ \E f \in DOMAIN files :
          /\ Len(files[f]) >= 3
          /\ files[f][1].distance < files[f][Len(files[f])].distance
          /\ \E tip \in DOMAIN processed :
                /\ processed[tip].output_path = f
                /\ \E c \in Up(tip) \cap DOMAIN parent_of :
                      hamming_of[<<parent_of[c], c>>] = 0

\* ================================================== claims: pairwise tool
\* a pair as the set of its two members
Unordered(pair) == {pair[1], pair[2]}

\* no two positions of the list hold the same unordered pair
DistinctPairs(pairs) ==
    \A k, l \in 1..Len(pairs) :
        k # l => Unordered(pairs[k]) # Unordered(pairs[l])

\* C9: generate_pairs over n distinct items returns every unordered pair
\* exactly once when the limit is unset or at least n*(n-1)/2, and otherwise
\* (for a limit that is a count, 0 or more) exactly limit distinct unordered
\* pairs of two different items; two calls with the same seed return the
\* same pairs.
C9_GeneratePairs ==
    pc = "generate_pairs" =>
        LET n == Len(items)
            total == (n * (n - 1)) \div 2
            limit == pair_args.limit
        IN  /\ \A c \in DOMAIN calls :
                  calls[c].pc = "returned" =>
                      LET pairs == calls[c].pairs
                      IN  /\ \A k \in 1..Len(pairs) :
                                /\ pairs[k][1] # pairs[k][2]
                                /\ Unordered(pairs[k]) \subseteq Range(items)
                          /\ DistinctPairs(pairs)
                          /\ (limit.none \/ limit.val >= total) =>
                                /\ Len(pairs) = total
                                /\ \A a, b \in Range(items) :
                                      a # b => \E k \in 1..Len(pairs) :
                                                  Unordered(pairs[k]) = {a, b}
                          /\ (~limit.none /\ limit.val >= 0
                                /\ limit.val < total) =>
                                Len(pairs) = limit.val
            /\ (calls[1].pc = "returned" /\ calls[2].pc = "returned")
                  => calls[1].pairs = calls[2].pairs

\* both calls sampled 3 of the 10 pairs of 5 items, having drawn an index
\* twice, and returned a pair of the last row
C9_Witness ==
    /\ pc = "generate_pairs"
    /\ Len(items) = 5 /\ ~pair_args.limit.none /\ pair_args.limit.val = 3
    /\ \A c \in DOMAIN calls :
          /\ calls[c].pc = "returned"
          /\ calls[c].draws > 3
          /\ Len(calls[c].pairs) = 3
          /\ \E k \in 1..3 : calls[c].pairs[k][2] = items[5]

\* the clade root of a test tip read off the branch table: the nearest node
\* at or above it that is test and whose parent is not
CladeRootsAbove(tip) ==
    {x \in Up(tip) \cap DOMAIN parent_of :
        /\ LabelOf(train_test_of, x) = "test"
        /\ LabelOf(train_test_of, parent_of[x]) \in {"train", ""}
        /\ \A y \in Up(tip) \cap DOMAIN parent_of :
              (/\ LabelOf(train_test_of, y) = "test"
               /\ LabelOf(train_test_of, parent_of[y]) \in {"train", ""})
                  => y \in Up(x)}

\* the test tips
TestTips == {t \in find_tips(parent_of) : LabelOf(train_test_of, t) = "test"}

\* the unordered pairs of different test tips with the same clade root
WithinCladePairs ==
    {{a, b} : a, b \in TestTips} \cap
    {pr \in SUBSET TestTips :
        /\ Cardinality(pr) = 2
        /\ \E r \in DOMAIN parent_of :
              \A t \in pr : CladeRootsAbove(t) = {r}}

\* C10: every pair generate_test_pairs_by_clade returns is made of two
\* different test tips with the same clade root; with a limit (a count, 0
\* or more) below the number of within-clade pairs it returns exactly limit
\* distinct pairs, and without one (or above) every within-clade pair.
C10_SameCladePairs ==
    pc = "generate_test_pairs_by_clade" =>
        \A c \in DOMAIN calls :
            calls[c].pc = "returned" =>
                LET pairs == calls[c].pairs
                    limit == pair_args.limit
                    total == Cardinality(WithinCladePairs)
                IN  /\ \A k \in 1..Len(pairs) :
                          /\ pairs[k][1] # pairs[k][2]
                          /\ Unordered(pairs[k]) \in WithinCladePairs
                    /\ (~limit.none /\ limit.val >= 0 /\ limit.val < total)
                          => Len(pairs) = limit.val /\ DistinctPairs(pairs)
                    /\ (limit.none \/ limit.val >= total)
                          => /\ Len(pairs) = total
                             /\ DistinctPairs(pairs)

\* two pairs were sampled from the three within-clade pairs and more, one
\* from each of two clades
C10_Witness ==
    /\ pc = "generate_test_pairs_by_clade"
    /\ calls[1].pc = "returned"
    /\ ~pair_args.limit.none
    /\ pair_args.limit.val < Cardinality(WithinCladePairs)
    /\ \E k, l \in 1..Len(calls[1].pairs) :
          CladeRootsAbove(calls[1].pairs[k][1])
              # CladeRootsAbove(calls[1].pairs[l][1])

\* ============================================== claims: hamming distance
\* the positions both sequences have at which neither holds '-' or 'N' and
\* the characters differ
DifferingPositions(seq1, seq2) ==
    {k \in 1..Len(seq1) :
        /\ k <= Len(seq2)
        /\ seq1[k] # "-" /\ seq1[k] # "N"
        /\ seq2[k] # "-" /\ seq2[k] # "N"
        /\ seq1[k] # seq2[k]}

\* C11: calculate_hamming_distance is the number of positions below the
\* shorter length at which neither character is '-' or 'N' and the
\* characters differ; it is symmetric, zero on identical arguments, and the
\* functions of branches.py and pairwise_trajectory.py agree.
C11_HammingDistance ==
    pc = "hamming" =>
        LET expected == Cardinality(DifferingPositions(hamming_call.seq1,
                                                       hamming_call.seq2))
        IN  /\ \A x \in DOMAIN hamming_call \cap {"pairwise", "branches"} :
                  /\ hamming_call[x].forward = expected
                  /\ hamming_call[x].backward = hamming_call[x].forward
                  /\ hamming_call[x].same = 0
            /\ {"pairwise", "branches"} \subseteq DOMAIN hamming_call
                  => hamming_call.pairwise = hamming_call.branches

\* both functions were called on sequences of different lengths that differ
\* at a counted position and hold an 'N' against a base at another
C11_Witness ==
    /\ pc = "hamming"
    /\ {"pairwise", "branches"} \subseteq DOMAIN hamming_call
    /\ Len(hamming_call.seq1) # Len(hamming_call.seq2)
    /\ hamming_call.pairwise.forward = 1
    /\ \E k \in 1..Len(hamming_call.seq1) :
          /\ k <= Len(hamming_call.seq2)
          /\ hamming_call.seq1[k] = "N" /\ hamming_call.seq2[k] = "A"

\* ================================================ claims: main() of split
\* main() is at one of its own positions
InMain == pc \in {"validate", "load", "select", "raised", "annotated",
                  "colored", "written", "error"}

\* an argument fails a range check, or the document has no tree
InvalidInput == ~ArgumentsValid(args) \/ tree_dict = NoTree

\* one of --trim-begin and --trim-end is given without the other
UnpairedTrim == args.trim_begin.none # args.trim_end.none

\* no selection was entered, no node is labelled, nothing is written
NothingDone ==
    /\ runs[1] = NotEntered
    /\ \A n \in DOMAIN node_attrs : node_attrs[n] = "none"
    /\ output = <<>>

\* main() has not gone past its checks
AtChecks == pc \in {"validate", "load", "error"}

\* an invalid proportion, tolerance or --mutations-back, or a missing tree,
\* stops main() before any work
InvalidInputStopsMain ==
    (InMain /\ InvalidInput) => (AtChecks /\ NothingDone)

\* C12: a proportion or tolerance outside (0,1], a negative
\* --mutations-back, a document without a tree, and a trim bound given
\* without the other are each rejected before any selection, annotation or
\* write.
C12_RejectedBeforeWork ==
    (InMain /\ (InvalidInput \/ UnpairedTrim)) => (AtChecks /\ NothingDone)

\* ========================================= claims: walk_back_mutations
\* the number of mutations of the gene on the branch into node n that lie
\* in the window (all of them when a bound of the window is missing)
CountedOn(n) ==
    LET muts == IF args.gene \in DOMAIN tree_dict.muts[n]
                THEN tree_dict.muts[n][args.gene] ELSE <<>>
        windowed == ~args.trim_begin.none /\ ~args.trim_end.none
    IN  Cardinality({i \in 1..Len(muts) :
                       windowed => /\ muts[i].ok
                                   /\ args.trim_begin.val <= muts[i].pos
                                   /\ muts[i].pos <= args.trim_end.val})

RECURSIVE CountedOnAll(_)
\* the sum of CountedOn over a set of nodes
CountedOnAll(ns) ==
    IF ns = {} THEN 0
    ELSE LET n == CHOOSE x \in ns : TRUE
         IN  CountedOn(n) + CountedOnAll(ns \ {n})

\* the tip, its ancestors, and the nodes of that chain strictly below node
ChainOf(tip) == AncSelf(tree_dict.parent, tip)

BelowOnChain(tip, node) ==
    {x \in ChainOf(tip) \ {node} : node \in AncSelf(tree_dict.parent, x)}

\* C13: with a target above the sum of the counted mutations on all
\* branches between the tip and the root, walk_back_mutations returns the
\* root.
C13_ExhaustedReturnsRoot ==
    pc = "walk" =>
        \A tip \in DOMAIN runs :
            args.mutations_back > CountedOnAll(ChainOf(tip) \ {1})
                => runs[tip] = tree_dict.name[1]

\* a tip two branches below the root, with counted mutations on the way, was
\* walked from with a target above their sum
C13_Witness ==
    /\ pc = "walk"
    /\ \E tip \in DOMAIN runs :
          /\ Cardinality(ChainOf(tip)) >= 3
          /\ CountedOnAll(ChainOf(tip) \ {1}) >= 2
          /\ args.mutations_back > CountedOnAll(ChainOf(tip) \ {1})
          /\ runs[tip] = 1

\* C14: with target 0 walk_back_mutations returns the tip it started from.
C14_ZeroTargetReturnsTip ==
    pc = "walk" =>
        \A tip \in DOMAIN runs : args.mutations_back = 0 => runs[tip] = tip

\* a tip below the root with no counted mutation on its branch, and one
\* with some, were walked from with target 0
C14_Witness ==
    /\ pc = "walk" /\ args.mutations_back = 0
    /\ \E tip \in DOMAIN runs : tip # 1 /\ CountedOn(tip) = 0
    /\ \E tip \in DOMAIN runs : tip # 1 /\ CountedOn(tip) > 0

\* the node the walk is said to return: the lowest node of the chain at
\* which the mutations counted on the branches of the nodes below it reach
\* the target, the root when there is none
ParentEndOf(tip) ==
    LET reached == {node \in ChainOf(tip) :
                       CountedOnAll(BelowOnChain(tip, node))
                           >= args.mutations_back}
    IN  IF reached = {} THEN tree_dict.name[1]
        ELSE CHOOSE node \in reached :
                 \A other \in reached :
                     other \in AncSelf(tree_dict.parent, node)

\* C20: walk_back_mutations returns the first node of the tip-to-root chain
\* at which the total over the branches of the nodes left below it is at
\* least the target: for a positive target the parent end of the branch
\* that brought the total to the target.
C20_ReturnsParentEnd ==
    pc = "walk" => \A tip \in DOMAIN runs : runs[tip] = ParentEndOf(tip)

\* ------------------------------------------- claims: test_tips of a selection
\* the names of the named nodes of the tree that have no children
TipNames(t) == {t.name[n] : n \in {k \in Nodes(t) : IsTip(t, k)}} \ {NoName}

\* C15: at entry to the selection, after every iteration of the loop of
\* iterative_test_selection and at the return of both strategies, test_tips
\* is exactly the set of the tips of the tree that are in test_nodes.
C15_TestTipsAreTipsOfTestNodes ==
    \A r \in DOMAIN runs :
        runs[r].test_tips = runs[r].test_nodes \cap TipNames(tree_dict)

\* The scenario tree R(A, P(B, C), D) in the middle of the loop with P's
\* clade marked: test_tips is {B, C} and test_nodes holds P, B and C.
C15_Witness ==
    /\ pc = "select"
    /\ args.strategy = "random-clades"
    /\ tree_dict.parent = <<0, 1, 1, 3, 3, 1>>
    /\ runs[1].pc = "loop"
    /\ runs[1].test_tips = {4, 5}
    /\ {3, 4, 5} \subseteq runs[1].test_nodes
    /\ 3 \in runs[1].marked

\* -------------------------------------------- claims: output files of a run
\* C16: within one run no two different tips are written to the same
\* trajectory path and no two different pairs are written to the same
\* pairwise path.
C16_DistinctOutputPaths ==
    /\ pc = "trajectory" =>
          \A t1, t2 \in DOMAIN processed :
              t1 # t2 => processed[t1].output_path # processed[t2].output_path
    /\ pc = "pairwise" =>
          \A i, j \in 1..Len(pairwise_run.wrote) :
              i # j => pairwise_run.wrote[i].output_path
                           # pairwise_run.wrote[j].output_path

\* the pairs the loops have reached of which a member has no sequence
AbsentPairs ==
    {k \in 1..Len(pairwise_run.done) :
        \/ SequenceOf(sequences, pairwise_run.done[k].tip1) = <<>>
        \/ SequenceOf(sequences, pairwise_run.done[k].tip2) = <<>>}

\* Of the pairs reached exactly those with both sequences were written and
\* have a distance in one of the two lists, and the loops go on to the end.
AbsentPairSkipped ==
    pc = "pairwise" =>
        /\ \A k \in AbsentPairs :
              \A i \in 1..Len(pairwise_run.wrote) :
                  pairwise_run.wrote[i].job # pairwise_run.done[k]
        /\ Len(pairwise_run.wrote)
              = Len(pairwise_run.done) - Cardinality(AbsentPairs)
        /\ Len(pairwise_run.train_distances)
              + Len(pairwise_run.test_distances) = Len(pairwise_run.wrote)

\* the tips the loop has reached whose own sequence is not in the alignment
AbsentTips == {tip \in DOMAIN processed : SequenceOf(sequences, tip) = <<>>}

\* C17: a tip without a sequence of its own, and a pair with a member
\* without a sequence, gets no output file and adds nothing to
\* tip_distances, path_depths or the distance lists of the pairs.
C17_AbsentSequenceSkipped ==
    /\ AbsentPairSkipped
    /\ pc = "trajectory" =>
          /\ \A tip \in AbsentTips :
                processed[tip].output_path \notin DOMAIN files
          /\ Len(stats.tip_distances)
                = Cardinality(DOMAIN processed \ AbsentTips)
          /\ Len(stats.path_depths)
                = Cardinality(DOMAIN processed \ AbsentTips)

\* ------------------------------------ claims: add_train_test_coloring
\* the positions of the colorings of a document with key train_test
TrainTestPositions(doc) ==
    {i \in 1..Len(ColoringsOf(doc)) : ColoringsOf(doc)[i].key = "train_test"}

\* C18: when the document held at most one coloring with key train_test
\* before the first call, then after every call it holds exactly one, which
\* carries the fixed scale; the colorings with another key are the ones the
\* document held, at their positions; and every call after the first leaves
\* the document as it was.
C18_ColoringIdempotent ==
    (pc = "coloring" /\ Cardinality(TrainTestPositions(documents[1])) <= 1) =>
        \A k \in 2..Len(documents) :
            LET before == ColoringsOf(documents[1])
                after == ColoringsOf(documents[k])
            IN  /\ documents[k].has_meta /\ documents[k].has_colorings
                /\ Cardinality(TrainTestPositions(documents[k])) = 1
                /\ \A i \in TrainTestPositions(documents[k]) :
                      after[i].scale = <<(<<"train", "#4C78A8">>),
                                         (<<"test", "#E45756">>)>>
                /\ \A i \in 1..Len(before) :
                      before[i].key # "train_test" =>
                          i <= Len(after) /\ after[i] = before[i]
                /\ Len(after) = Len(before)
                      + (IF TrainTestPositions(documents[1]) = {}
                         THEN 1 ELSE 0)
                /\ k > 2 => documents[k] = documents[k - 1]

\* Two calls on a document that held a stale train_test coloring between
\* two others.
C18_Witness ==
    /\ pc = "coloring"
    /\ Len(documents) >= 3
    /\ Len(ColoringsOf(documents[1])) = 3
    /\ TrainTestPositions(documents[1]) = {2}
    /\ ColoringsOf(documents[1])[2] # ColoringsOf(documents[2])[2]

\* ------------------------------------------- claims: targets of a selection
\* the largest integer not above num / den
Floor(num, den) == CHOOSE k \in 0..num : k * den <= num /\ num < (k + 1) * den

\* num / den rounded to the nearest integer, a half to the even neighbour
\* (round() of Python)
RoundNearest(num, den) ==
    LET below == Floor(num, den)
        twice_rest == 2 * (num - below * den)
    IN  IF twice_rest < den THEN below
        ELSE IF twice_rest > den THEN below + 1
        ELSE IF below % 2 = 0 THEN below ELSE below + 1

\* total_tips * test_proportion and total_tips * max_clade_proportion as
\* numerators over PropDen
TestNumerator == Cardinality(TipNames(tree_dict)) * args.test_proportion

CladeNumerator == Cardinality(TipNames(tree_dict)) * args.max_clade_proportion

\* C19 as stated: target_test_count is max(1, round(total_tips *
\* test_proportion)) in both strategies and max_clade_tips is
\* floor(total_tips * max_clade_proportion).
C19_TargetRounded ==
    pc = "computed" =>
        /\ runs[1].target_test_count
              = Max(1, RoundNearest(TestNumerator, PropDen))
        /\ args.strategy = "random-clades" =>
              runs[1].max_clade_tips = Floor(CladeNumerator, PropDen)

\* C19 amended: target_test_count is max(1, floor(total_tips *
\* test_proportion)) in both strategies, the product cut and not rounded,
\* and max_clade_tips is floor(total_tips * max_clade_proportion).
C19_TargetTruncated ==
    pc = "computed" =>
        /\ runs[1].target_test_count = Max(1, Floor(TestNumerator, PropDen))
        /\ args.strategy = "random-clades" =>
              runs[1].max_clade_tips = Floor(CladeNumerator, PropDen)

\* Targets computed from a product whose fraction is above a half, where
\* cutting and rounding differ, by each of the two strategies' arguments.
C19_Witness ==
    /\ pc = "computed"
    /\ 2 * (TestNumerator % PropDen) > PropDen
    /\ runs[1].target_test_count >= 2
    /\ runs[1].target_test_count < RoundNearest(TestNumerator, PropDen)
    /\ args.strategy = "random-clades"
    /\ runs[1].max_clade_tips * PropDen < CladeNumerator

\* ------------------------------------- claims: the RandomClades loop
\* the selection of run r has ended
Returned(r) == runs[r].pc = "returned"

\* every tip is test or was tried as a seed
NoUntriedSeed(r) ==
    TipNames(tree_dict) \subseteq runs[r].test_tips \cup runs[r].tried_seeds

\* at most total_tips seeds were tried, no error is raised, and a loop that
\* has ended reached the target or has no untried seed left
StopsAtTargetOrExhausted ==
    (pc = "select" /\ args.strategy = "random-clades") =>
        /\ pc # "raised"
        /\ \A r \in DOMAIN runs :
              /\ runs[r].pc \in {"loop", "returned"}
              /\ Cardinality(runs[r].tried_seeds)
                    <= Cardinality(TipNames(tree_dict))
              /\ Returned(r) =>
                    \/ Cardinality(runs[r].test_tips)
                          >= target_test_count(tree_dict, args)
                    \/ NoUntriedSeed(r)

\* C21: the RandomClades loop always ends, after at most total_tips seed
\* attempts and without an error, and when it has ended the target is
\* reached or every tip is test or was tried.
C21_LoopTerminates ==
    /\ []StopsAtTargetOrExhausted
    /\ <>(pc = "select" /\ Returned(1))

\* The loop ended below the target with every seed tried.
C21_Witness ==
    /\ pc = "select"
    /\ args.strategy = "random-clades"
    /\ Returned(1)
    /\ Cardinality(runs[1].test_tips) < target_test_count(tree_dict, args)
    /\ runs[1].tried_seeds = TipNames(tree_dict)
    /\ Cardinality(runs[1].tried_seeds) >= 3

\* the seeds the step adds to tried_seeds
SeedOfStep == runs'[1].tried_seeds \ runs[1].tried_seeds

\* the clade of the ancestor the walk from seed ends at has more than
\* floor(total_tips * max_clade_proportion) tips
Oversized(seed) ==
    TipsUnder(tree_dict,
              build_node_map(tree_dict)[SeedAncestor(tree_dict, args, seed)])
        > Floor(CladeNumerator, PropDen)

\* C22: a step of the RandomClades loop either ends the loop without a
\* seed, or takes exactly one seed, a tip that was neither tried nor test,
\* and records it as tried; when the clade of its ancestor is oversized the
\* step leaves test_nodes and test_tips as they were.
C22_DiscardedSeed ==
    [][(/\ pc = "select" /\ args.strategy = "random-clades"
        /\ runs[1].pc = "loop" /\ runs'[1] # runs[1]) =>
          \/ /\ runs'[1].pc = "returned"
             /\ SeedOfStep = {}
             /\ runs'[1].test_nodes = runs[1].test_nodes
             /\ runs'[1].test_tips = runs[1].test_tips
          \/ /\ runs'[1].pc = "loop"
             /\ \E seed \in TipNames(tree_dict)
                              \ (runs[1].tried_seeds \cup runs[1].test_tips) :
                   /\ SeedOfStep = {seed}
                   /\ Oversized(seed) =>
                         /\ runs'[1].test_nodes = runs[1].test_nodes
                         /\ runs'[1].test_tips = runs[1].test_tips]_vars

\* A seed was discarded as oversized and is not test, another seed was
\* accepted, and a test tip was skipped as a seed.
C22_Witness ==
    /\ pc = "select" /\ args.strategy = "random-clades"
    /\ \E seed \in runs[1].tried_seeds :
          Oversized(seed) /\ seed \notin runs[1].test_tips
    /\ \E seed \in runs[1].tried_seeds : ~Oversized(seed)
    /\ runs[1].test_tips \ runs[1].tried_seeds # {}
    /\ runs[1].available_tips = <<>>

\* ------------------------------------- claims: the Monophyletic strategy
\* the nodes whose tip count is in the tolerance window of the target
NodesInWindow ==
    {n \in Nodes(tree_dict) :
        WithinTolerance(TipsUnder(tree_dict, n),
                        Max(1, Floor(TestNumerator, PropDen)),
                        args.tolerance)}

\* |tip_count - target| of a node
OffTarget(n) ==
    Abs(TipsUnder(tree_dict, n) - Max(1, Floor(TestNumerator, PropDen)))

\* C23: the clade Monophyletic returns is a node in the tolerance window
\* with the least |tip_count - target| among the nodes in the window, the
\* first of these in pre-order (the nodes are numbered in pre-order), and
\* test_nodes holds exactly the names of that node and its descendants.
C23_ClosestFirstInPreOrder ==
    (pc \in {"select", "annotated"} /\ args.strategy = "monophyletic"
     /\ runs[1].pc = "returned") =>
        \E n \in NodesInWindow :
            /\ runs[1].marked = {n}
            /\ \A m \in NodesInWindow :
                  /\ OffTarget(n) <= OffTarget(m)
                  /\ OffTarget(m) = OffTarget(n) => n <= m
            /\ runs[1].test_nodes
                  = {tree_dict.name[d] :
                       d \in {n} \cup ProperDescendants(tree_dict, n)}
                    \ {NoName}

\* Several nodes of the window were equally close to the target, the first
\* one, an inner node, was returned with its descendants.
C23_Witness ==
    /\ pc = "select" /\ args.strategy = "monophyletic"
    /\ runs[1].pc = "returned"
    /\ \E n \in runs[1].marked :
          /\ ProperDescendants(tree_dict, n) # {}
          /\ \E m \in NodesInWindow : m > n /\ OffTarget(m) = OffTarget(n)
          /\ \E m \in NodesInWindow : OffTarget(m) > OffTarget(n)

\* ------------------------------------ claims: entries of a trajectory
\* the nodes of the entries of the file of a processed tip, in order
EmittedNodes(tip) ==
    LET entries == files[processed[tip].output_path]
    IN  [k \in 1..Len(entries) |-> entries[k].node]

\* position i is the first of the path, the tip, or has a branch distance
\* other than 0 in the table
KeptByDistance(path, i) ==
    \/ i = 1
    \/ i = Len(path)
    \/ hamming_of[<<path[i - 1], path[i]>>] # 0

\* the nodes of the path at the positions in keep, in path order
NodesAt(path, keep) ==
    LET RECURSIVE From(_)
        From(i) == IF i > Len(path) THEN <<>>
                   ELSE (IF i \in keep THEN <<path[i]>> ELSE <<>>)
                        \o From(i + 1)
    IN  From(1)

\* C24 as stated: an entry is written for a node of the path exactly when
\* it is the first node, the tip, or its branch distance is not 0.
C24_EmittedByDistance ==
    pc = "trajectory" =>
        \A tip \in DOMAIN processed :
            LET path == processed[tip].path
            IN  EmittedNodes(tip)
                    = NodesAt(path, {i \in 1..Len(path) :
                                        KeptByDistance(path, i)})

\* C24 amended: an entry is written for a node of the path exactly when
\* the alignment has a sequence for it and it is the first node, the tip,
\* or its branch distance is not 0.
C24_EmittedByDistanceAndSequence ==
    pc = "trajectory" =>
        \A tip \in DOMAIN processed :
            LET path == processed[tip].path
            IN  EmittedNodes(tip)
                    = NodesAt(path, {i \in 1..Len(path) :
                                        /\ KeptByDistance(path, i)
                                        /\ path[i] \in DOMAIN sequences
                                        /\ sequences[path[i]] # <<>>})

\* A path of four nodes of which one was dropped for its distance 0 and one
\* with a distance for its missing sequence, the tip kept at distance 0.
C24_Witness ==
    /\ pc = "trajectory"
    /\ \E tip \in DOMAIN processed :
          LET path == processed[tip].path
          IN  /\ Len(path) = 4
              /\ Len(EmittedNodes(tip)) = 2
              /\ EmittedNodes(tip)[2] = tip
              /\ hamming_of[<<path[3], tip>>] = 0
              /\ \E i \in 2..3 : /\ hamming_of[<<path[i - 1], path[i]>>] # 0
                                 /\ path[i] \notin DOMAIN sequences

\* ------------------------------------------- claims: index inversion
\* the pairs (j, i), 0 <= j < i < n, row by row: (0,1); (0,2), (1,2); ...
RowByRow(n) ==
    LET RECURSIVE From(_, _)
        From(i, j) == IF i >= n THEN <<>>
                      ELSE IF j >= i THEN From(i + 1, 0)
                      ELSE <<(<<j, i>>)>> \o From(i, j + 1)
    IN  From(1, 0)

\* the pairs (j, i), 0 <= j < i < n, with idx = i(i-1)/2 + j
PairsOfIndex(idx, n) ==
    {p \in (0..(n - 1)) \X (0..(n - 1)) :
        p[1] < p[2] /\ idx * 2 = p[2] * (p[2] - 1) + 2 * p[1]}

\* C25: whatever the estimate before the two loops, every idx in
\* [0, n(n-1)/2) is converted to the pair of the items at (j, i), the one
\* pair with 0 <= j < i < n and idx = i(i-1)/2 + j, which is the idx-th pair
\* of the row-by-row enumeration (0,1); (0,2), (1,2); ...
C25_IndexInversion ==
    pc = "convert" =>
        \A c \in DOMAIN calls :
            LET n == Len(items)
                idx == calls[c].idx
                p == RowByRow(n)[idx + 1]
            IN  /\ Len(RowByRow(n)) = PairCount(n)
                /\ PairsOfIndex(idx, n) = {p}
                /\ calls[c].pair = <<items[p[1] + 1], items[p[2] + 1]>>

\* The last index of five items converted from an estimate that is too
\* small, and the first from one that is too large.
C25_Witness ==
    /\ pc = "convert"
    /\ Len(items) = 5
    /\ Len(calls) = 2
    /\ calls[1].idx = 9 /\ calls[1].estimate = 1 /\ calls[1].i = 4
    /\ calls[2].idx = 0 /\ calls[2].estimate = MaxEstimate /\ calls[2].i = 1

\* ------------------------------- claims: the size of the RandomClades result
\* target_test_count - 1 + max_clade_tips, from the tips of the tree
OvershootBound ==
    Max(1, Floor(TestNumerator, PropDen)) - 1 + Floor(CladeNumerator, PropDen)

\* C26: when iterative_test_selection has returned, the number of test tips
\* is at most target_test_count - 1 + max_clade_tips.
C26_BoundedOvershoot ==
    (pc = "select" /\ args.strategy = "random-clades") =>
        \A r \in DOMAIN runs :
            Returned(r) => Cardinality(runs[r].test_tips) <= OvershootBound

\* A return with more test tips than the target, as many as the bound allows,
\* the last clade marked having max_clade_tips tips.
C26_Witness ==
    /\ pc = "select" /\ args.strategy = "random-clades"
    /\ Returned(1)
    /\ Cardinality(runs[1].test_tips) = OvershootBound
    /\ Cardinality(runs[1].test_tips) > target_test_count(tree_dict, args)
    /\ \E n \in runs[1].marked :
          TipsUnder(tree_dict, n) = max_clade_tips(tree_dict, args)

\* C27: when total_tips * max_clade_proportion < 1, so that max_clade_tips is
\* 0, RandomClades rejects every seed it tries and returns empty test_nodes
\* and test_tips although the target is at least 1; when max_clade_tips >= 1
\* and mutations_back = 0 the result holds at least one test tip.
C27_EmptyOrNonEmptyResult ==
    (pc = "select" /\ args.strategy = "random-clades") =>
        \A r \in DOMAIN runs :
            /\ CladeNumerator < PropDen =>
                  /\ runs[r].marked = {}
                  /\ runs[r].test_nodes = {} /\ runs[r].test_tips = {}
                  /\ Returned(r) =>
                        /\ runs[r].tried_seeds = TipNames(tree_dict)
                        /\ Max(1, Floor(TestNumerator, PropDen)) >= 1
            /\ (/\ Returned(r)
                /\ Floor(CladeNumerator, PropDen) >= 1
                /\ args.mutations_back = 0) => runs[r].test_tips # {}

\* A return with nothing marked from a tree of two tips, each tried as a
\* seed and rejected, max_clade_tips being 0.
C27_Witness ==
    /\ pc = "select" /\ args.strategy = "random-clades"
    /\ Returned(1)
    /\ CladeNumerator < PropDen
    /\ Cardinality(runs[1].tried_seeds) = 2
    /\ runs[1].test_nodes = {}

\* a return of the selection with mutations_back = 0 and max_clade_tips = 1
ReturnWithSingleTipClades ==
    /\ pc = "select" /\ args.strategy = "random-clades"
    /\ Returned(1)
    /\ Floor(CladeNumerator, PropDen) = 1
    /\ args.mutations_back = 0
    /\ Cardinality(runs[1].test_tips) >= 2

\* ----------------------------- claims: clade roots and the test boundary
\* the clade roots get_clade_membership has recorded for a tip
RecordedCladeRoots(tip) ==
    {clade_membership[k].clade_root :
        k \in {j \in 1..Len(clade_membership) : clade_membership[j].tip = tip}}

\* the entries get_clade_membership has recorded for a tip
EntriesOf(tip) == {k \in 1..Len(clade_membership) : clade_membership[k].tip = tip}

\* the first node of the path the trajectory tool keeps for a tip
TruncationNode(tip) == TrajectoryPath(tip)[1]

\* C28: with downward-closed labels get_clade_membership records for every
\* tip labelled test exactly one clade root, which is the tip or one of its
\* ancestors and is the node at which the trajectory tool cuts the tip's
\* path (the node find_test_boundary finds).
C28_CladeRootIsBoundary ==
    (pc = "generate_test_pairs_by_clade" /\ LabelsDownwardClosed) =>
        \A tip \in TestTips :
            /\ Cardinality(EntriesOf(tip)) = 1
            /\ RecordedCladeRoots(tip) \subseteq Up(tip)
            /\ RecordedCladeRoots(tip) = {TruncationNode(tip)}
            /\ LET path == TrajectoryPathFull(tip)
               IN  TruncationNode(tip)
                       = path[find_test_boundary(path, train_test_of)]

\* Downward-closed labels with one test tip cut at an ancestor, another cut
\* at itself, and a train tip.
C28_Witness ==
    /\ pc = "generate_test_pairs_by_clade"
    /\ LabelsDownwardClosed
    /\ calls[1].pc = "returned"
    /\ \E tip \in TestTips :
          /\ TruncationNode(tip) # tip
          /\ RecordedCladeRoots(tip) = {TruncationNode(tip)}
    /\ \E tip \in TestTips : RecordedCladeRoots(tip) = {tip}
    /\ find_tips(parent_of) \ TestTips # {}

\* --------------------------------- claims: distances of a trajectory
\* the sum of the branch distances of the table along path[1..k]
RECURSIVE DistanceAlong(_, _)
DistanceAlong(path, k) ==
    IF k <= 1 THEN 0
    ELSE DistanceAlong(path, k - 1) + hamming_of[<<path[k - 1], path[k]>>]

\* the position of a node in a path
PositionIn(path, node) == CHOOSE i \in 1..Len(path) : path[i] = node

\* C29: the distance written with an entry is the sum of the branch
\* distances of all the branches of the (possibly cut) path from its first
\* node to the entry's node, the branches into nodes without an entry
\* included; the first node is written with 0, so the branch into the first
\* test node from its train parent is not counted.
C29_CumulativeDistance ==
    pc = "trajectory" =>
        \A tip \in DOMAIN processed :
            LET path == processed[tip].path
                entries == files[processed[tip].output_path]
            IN  \A k \in 1..Len(entries) :
                    /\ entries[k].node \in Range(path)
                    /\ entries[k].distance
                          = DistanceAlong(path, PositionIn(path, entries[k].node))
                    /\ entries[k].node = path[1] => entries[k].distance = 0

\* A test tip whose path was cut below a branch of distance 1, written with
\* the first test node at 0 and the tip at more than the distance of its own
\* branch, a node between them having no entry.
C29_Witness ==
    /\ pc = "trajectory"
    /\ \E tip \in DOMAIN processed :
          LET path == processed[tip].path
              entries == files[processed[tip].output_path]
          IN  /\ Len(path) = 3 /\ Len(entries) = 2
              /\ path[1] \in DOMAIN parent_of
              /\ hamming_of[<<parent_of[path[1]], path[1]>>] = 1
              /\ entries[1].node = path[1] /\ entries[1].distance = 0
              /\ entries[2].node = tip
              /\ entries[2].distance > hamming_of[<<path[2], tip>>]

\* --------------------------------------- claims: the sampling loops
\* the number of pairs the running function samples from, counted from the
\* items and the labelled table
PairsToSampleFrom ==
    IF pc = "generate_pairs"
    THEN Cardinality({pr \in SUBSET Range(items) : Cardinality(pr) = 2})
    ELSE Cardinality(WithinCladePairs)

\* the loop of call 1 has ended
LoopLeft == Cardinality(calls[1].selected_indices) >= pair_args.limit.val

\* the set holds indices in [0, total_pairs) only, never more than limit, and
\* exactly limit once the loop has ended
SelectedWithinLimit ==
    /\ calls[1].selected_indices \subseteq 0..(PairsToSampleFrom - 1)
    /\ Cardinality(calls[1].selected_indices) <= pair_args.limit.val
    /\ LoopLeft => Cardinality(calls[1].selected_indices) = pair_args.limit.val

\* C30: with 0 <= limit < total_pairs the sampling loops of generate_pairs
\* and generate_test_pairs_by_clade end under fair draws; the set of selected
\* indices never holds more than limit indices, all of them in
\* [0, total_pairs), and holds exactly limit when the loop has ended.
C30_SamplingTerminates ==
    /\ []SelectedWithinLimit
    /\ <>LoopLeft

\* The loop of generate_test_pairs_by_clade has ended with three of four
\* indices after an even number of draws, so that a draw repeated an index.
C30_Witness ==
    /\ pc = "generate_test_pairs_by_clade"
    /\ LoopLeft
    /\ pair_args.limit.val = 3
    /\ Cardinality(calls[1].selected_indices) = 3
    /\ calls[1].draws = 0

====
